---- MODULE Spec2Model ----
(***************************************************************************)
(* Data reconciliation and retrieval pipeline of the dashboard pages:      *)
(* order-key normalisation, the Invoice page's left join of invoice rows   *)
(* to de-duplicated project rows, the column fallback, and the keyword     *)
(* ranker of the AI page.                                                   *)
(*                                                                         *)
(* Text is a sequence of one-character strings, so that trimming,          *)
(* printing and parsing are computed rather than assumed.  A cell value is *)
(* a record [tag, n, s]:                                                   *)
(*   tag = "null"   None / NaN (pd.isna is true)                           *)
(*   tag = "int"    the integer n                                          *)
(*   tag = "float"  the float n / 10 (n counts tenths)                     *)
(*   tag = "inf"    the float +inf                                         *)
(*   tag = "str"    the text s                                             *)
(***************************************************************************)
EXTENDS Integers, Sequences, FiniteSets, TLC

VARIABLES
    n_in,            \* normalize_order_number: the raw value handed in
    n_out,           \* normalize_order_number: results of successive applications
    project_raw,     \* FINAL_PROJECT as returned by the source
    invoice_raw,     \* FINAL_INVOICE as returned by the source
    project_df,      \* Invoice page: cleaned project table with its join key
    invoice_df,      \* Invoice page: cleaned invoice table with its join key
    project_lookup,  \* Invoice page: de-duplicated project columns
    merged,          \* Invoice page: the joined table with the combined columns
    page,            \* Invoice page: "idle" before the script ran, "rendered" after
    r_query,         \* rank_docs: the query text
    r_docs,          \* rank_docs: the corpus, a sequence of documents
    r_top_k,         \* rank_docs: top_k
    r_result,        \* rank_docs: whether it was called, the corpus positions, in
                     \* result order, of the documents it returned, and the score
                     \* it gave each document of the corpus
    c_project,       \* build_corpus: rows of project_df
    c_invoice,       \* build_corpus: rows of invoice_df
    c_domain,        \* build_corpus: domain
    c_include_pmbok, \* build_corpus: include_pmbok
    c_chunks,        \* build_corpus: pmbok_chunks
    c_include_workflow, \* build_corpus: include_workflow
    c_limit,         \* build_corpus: limit
    c_corpus,        \* build_corpus: whether it was called and the documents returned
    k_project_raw,   \* cleaners: the project table handed to clean_project
    k_invoice_raw,   \* cleaners: the invoice table handed to clean_invoice
    k_cleaned,       \* cleaners: per page, whether its loader ran and the two
                     \* cleaned tables it returned
    g_client,        \* Ask AI: whether openrouter_client is configured
    g_model,         \* Ask AI: model_choice
    g_upstream,      \* Ask AI: the chunks the upstream stream will deliver
    g_taken,         \* Ask AI: number of chunks taken from the upstream stream
    g_yielded,       \* Ask AI: the fragments call_model_stream yielded so far
    g_state,         \* Ask AI: where the generator of call_model_stream stands
    g_asked,         \* Ask AI: number of times st.write_stream asked for a fragment
    g_calls,         \* Ask AI: the requests sent to chat.completions.create
    g_errors,        \* Ask AI: number of st.error messages of the handler
    s_ollama,        \* session: whether the ollama client could be imported
    s_style,         \* session: st.session_state["_add_record_modal_style_injected"]
    s_summary,       \* session: st.session_state["ai_summary_<key>"] per chart key,
                     \* null while the key is not in the session state
    s_run,           \* session: the last script run, what it rendered and what the
                     \* clicked AI button did
    w_sheet,         \* add record: the rows of each worksheet of the Google Sheet
    w_cache,         \* add record: the cached result of conn.read per worksheet,
                     \* shared by all sessions
    w_sub,           \* add record: per session, its last form submission: where
                     \* the handler stands, what it read and what it showed
    w_count,         \* add record: number of submissions made so far
    p_source,        \* pages: the warehouse: whether its queries answer, and the
                     \* state of its COLUMN_META table
    p_duck,          \* pages: the tables of cache.duckdb, shared by all sessions
    p_cached,        \* pages: the st.cache_data entries of the loaders, shared by
                     \* all sessions
    p_run            \* pages: the last script run of a data page

normVars == <<n_in, n_out>>
joinVars == <<project_raw, invoice_raw, project_df, invoice_df, project_lookup, merged, page>>
rankVars == <<r_query, r_docs, r_top_k, r_result>>
corpusVars == <<c_project, c_invoice, c_domain, c_include_pmbok, c_chunks,
                c_include_workflow, c_limit, c_corpus>>
cleanVars == <<k_project_raw, k_invoice_raw, k_cleaned>>
streamVars == <<g_client, g_model, g_upstream, g_taken, g_yielded, g_state, g_asked,
                g_calls, g_errors>>
\* The areas of the data pipeline, and the areas of the interactive handlers
dataVars == <<normVars, joinVars, rankVars, corpusVars, cleanVars>>
sessionVars == <<s_ollama, s_style, s_summary, s_run>>
sheetVars == <<w_sheet, w_cache, w_sub, w_count>>
pageVars == <<p_source, p_duck, p_cached, p_run>>
handlerVars == <<streamVars, sessionVars, sheetVars, pageVars>>
\* For the actions of one area: the other areas of the interactive handlers
notStreamVars == <<sessionVars, sheetVars, pageVars>>
notSessionVars == <<streamVars, sheetVars, pageVars>>
notSheetVars == <<streamVars, sessionVars, pageVars>>
notPageVars == <<streamVars, sessionVars, sheetVars>>
vars == <<n_in, n_out, project_raw, invoice_raw, project_df, invoice_df,
          project_lookup, merged, page, r_query, r_docs, r_top_k, r_result,
          c_project, c_invoice, c_domain, c_include_pmbok, c_chunks,
          c_include_workflow, c_limit, c_corpus,
          k_project_raw, k_invoice_raw, k_cleaned,
          g_client, g_model, g_upstream, g_taken, g_yielded, g_state, g_asked,
          g_calls, g_errors, s_ollama, s_style, s_summary, s_run,
          w_sheet, w_cache, w_sub, w_count, p_source, p_duck, p_cached, p_run>>

----------------------------------------------------------------------------
(* Bounds *)

MaxInt == 12
MaxStrLen == 4
MaxProjects == 2
MaxInvoices == 2
MaxDocs == 3
MaxK == 8
NegK == 1

----------------------------------------------------------------------------
(* Values and text *)

Null == [tag |-> "null", n |-> 0, s |-> <<>>]
IntV(i) == [tag |-> "int", n |-> i, s |-> <<>>]
FloatV(tenths) == [tag |-> "float", n |-> tenths, s |-> <<>>]
InfV == [tag |-> "inf", n |-> 0, s |-> <<>>]
StrV(t) == [tag |-> "str", n |-> 0, s |-> t]

Whitespace == {" "}
DigitChars == <<"0", "1", "2", "3", "4", "5", "6", "7", "8", "9">>

SeqsUpTo(S, k) == UNION {[1..m -> S] : m \in 0..k}

Max(a, b) == IF a >= b THEN a ELSE b
Min(a, b) == IF a <= b THEN a ELSE b

\* pd.isna(value)
pd_isna(value) == value.tag = "null"

RECURSIVE PyStrNat(_)
PyStrNat(i) ==
    IF i < 10 THEN <<DigitChars[i + 1]>>
    ELSE PyStrNat(i \div 10) \o <<DigitChars[(i % 10) + 1]>>

\* str(i) of a Python int
PyStrInt(i) == IF i < 0 THEN <<"-">> \o PyStrNat(0 - i) ELSE PyStrNat(i)

\* int(x) of a finite Python float: truncation towards zero
PyIntOfFloat(tenths) ==
    IF tenths >= 0 THEN tenths \div 10 ELSE 0 - ((0 - tenths) \div 10)

\* str(x) of a finite Python float with one decimal place: "12.5", "1234.0"
PyStrFloat(tenths) ==
    LET a == IF tenths < 0 THEN 0 - tenths ELSE tenths
    IN  (IF tenths < 0 THEN <<"-">> ELSE <<>>)
            \o PyStrNat(a \div 10) \o <<".">> \o <<DigitChars[(a % 10) + 1]>>

\* str(value)
PyStr(value) ==
    CASE value.tag = "str" -> value.s
      [] value.tag = "int" -> PyStrInt(value.n)
      [] value.tag = "float" -> PyStrFloat(value.n)
      [] value.tag = "inf" -> <<"i", "n", "f">>
      [] OTHER -> <<"N", "o", "n", "e">>

RECURSIVE LStrip(_)
LStrip(t) == IF t # <<>> /\ Head(t) \in Whitespace THEN LStrip(Tail(t)) ELSE t

RECURSIVE RStrip(_)
RStrip(t) ==
    IF t # <<>> /\ t[Len(t)] \in Whitespace THEN RStrip(SubSeq(t, 1, Len(t) - 1)) ELSE t

\* Removes at most one whitespace character from each end.
StripOnce(t) ==
    LET a == IF t # <<>> /\ Head(t) \in Whitespace THEN Tail(t) ELSE t
    IN  IF a # <<>> /\ a[Len(a)] \in Whitespace THEN SubSeq(a, 1, Len(a) - 1) ELSE a

\* str.strip()
Strip(t) == RStrip(LStrip(t))

----------------------------------------------------------------------------
(* Key Normalizer *)

\* A variant that prints every number with str(value), never through int(value).
normalize_printed(value) ==
    IF pd_isna(value) THEN <<>>
    ELSE IF value.tag \in {"int", "float", "inf"} THEN PyStr(value)
    ELSE Strip(PyStr(value))

\* normalize_order_number(value): int(value) raises only for an infinity (NaN
\* has returned already), so every finite float is truncated.
normalize_order_number(value) ==
    IF pd_isna(value) THEN <<>>
    ELSE IF value.tag \in {"int", "float", "inf"} THEN
        IF value.tag = "inf" THEN PyStr(value)
        ELSE IF value.tag = "float" THEN PyStrInt(PyIntOfFloat(value.n))
        ELSE PyStrInt(value.n)
    ELSE Strip(PyStr(value))

NormAlphabet == {" ", "-", "0", "1", "2", "A"}

NormInputs ==
    {Null, InfV}
        \cup {IntV(i) : i \in (0 - MaxInt)..MaxInt}
        \cup {FloatV(m) : m \in (0 - (10 * MaxInt + 9))..(10 * MaxInt + 9)}
        \cup {StrV(t) : t \in SeqsUpTo(NormAlphabet, MaxStrLen)}

InitNorm ==
    /\ n_in \in NormInputs
    /\ n_out = <<>>

\* One call of normalize_order_number: on the raw value first, then on the key
\* the previous call returned.
Normalize ==
    /\ Len(n_out) < 2
    /\ LET arg == IF n_out = <<>> THEN n_in ELSE StrV(n_out[Len(n_out)])
       IN  n_out' = Append(n_out, normalize_order_number(arg))
    /\ UNCHANGED <<n_in, joinVars, rankVars, corpusVars, cleanVars, handlerVars>>

----------------------------------------------------------------------------
(* Column Normalizer (Invoice page) *)

\* A DataFrame: its column labels and its rows in index order; a row maps each
\* column label to a cell value.  Labels are already free of surrounding blanks.
Table(cols, rows) == [columns |-> cols, rows |-> rows]

Text1(a) == StrV(<<a>>)
Text2(a, b) == StrV(<<a, b>>)
Text3(a, b, c) == StrV(<<a, b, c>>)
Text4(a, b, c, d) == StrV(<<a, b, c, d>>)

RowAllNull(row) == \A c \in DOMAIN row : pd_isna(row[c])

\* df.dropna(how="all")
dropna_all(rows) == SelectSeq(rows, LAMBDA row : ~RowAllNull(row))

IsDigit(ch) == \E i \in 1..10 : DigitChars[i] = ch
DigitValue(ch) == (CHOOSE i \in 1..10 : DigitChars[i] = ch) - 1

RECURSIVE NatOfDigits(_)
NatOfDigits(t) ==
    IF t = <<>> THEN 0
    ELSE 10 * NatOfDigits(SubSeq(t, 1, Len(t) - 1)) + DigitValue(t[Len(t)])

AllDigits(t) == \A i \in 1..Len(t) : IsDigit(t[i])

\* The number a text denotes for pd.to_numeric, Null (NaN) when it denotes none:
\* blanks around it are skipped, then an optional sign, digits, and optionally a
\* point with one digit (texts with more fractional digits are not among the
\* inputs of this model).
ParseNumber(t) ==
    LET u == Strip(t)
        neg == u # <<>> /\ Head(u) = "-"
        body == IF u # <<>> /\ Head(u) \in {"-", "+"} THEN Tail(u) ELSE u
        sign == IF neg THEN 0 - 1 ELSE 1
        n == Len(body)
    IN  IF body # <<>> /\ AllDigits(body) THEN IntV(sign * NatOfDigits(body))
        ELSE IF n >= 3 /\ body[n - 1] = "." /\ AllDigits(SubSeq(body, 1, n - 2))
                /\ IsDigit(body[n])
            THEN FloatV(sign * (10 * NatOfDigits(SubSeq(body, 1, n - 2)) + DigitValue(body[n])))
        ELSE Null

\* pd.to_numeric(column, errors="coerce"), cell by cell
to_numeric(value) == IF value.tag = "str" THEN ParseNumber(value.s) ELSE value

\* Series.clip(upper=1): no lower bound
clip_upper(value) ==
    CASE value.tag = "float" -> FloatV(Min(10, value.n))
      [] value.tag = "int" -> IntV(Min(1, value.n))
      [] value.tag = "inf" -> FloatV(10)
      [] OTHER -> value

\* Series.clip(lower=0, upper=1), cell by cell
clip01(value) ==
    CASE value.tag = "float" -> FloatV(Max(0, Min(10, value.n)))
      [] value.tag = "int" -> IntV(Max(0, Min(1, value.n)))
      [] value.tag = "inf" -> FloatV(10)
      [] OTHER -> value

ProjectNumericCols == {"Order number", "Project Value", "Balance", "Progress"}
InvoiceNumericCols == {"Invoice value"}

\* clean_project(df)
clean_project(df) ==
    LET kept == dropna_all(df.rows)
    IN  Table(df.columns,
              [i \in 1..Len(kept) |->
                  [c \in df.columns |->
                      LET v == kept[i][c]
                      IN  IF c = "Progress" THEN clip01(to_numeric(v))
                      ELSE IF c \in ProjectNumericCols THEN to_numeric(v)
                      ELSE v]])

\* clean_invoice(df)
clean_invoice(df) ==
    LET kept == dropna_all(df.rows)
    IN  Table(df.columns,
              [i \in 1..Len(kept) |->
                  [c \in df.columns |->
                      LET v == kept[i][c]
                      IN  IF c \in InvoiceNumericCols THEN to_numeric(v) ELSE v]])

\* clean_invoice(df) of the Project page: the rows are not filtered
project_page_clean_invoice(df) ==
    Table(df.columns,
          [i \in 1..Len(df.rows) |->
              [c \in df.columns |->
                  LET v == df.rows[i][c]
                  IN  IF c \in InvoiceNumericCols THEN to_numeric(v) ELSE v]])

----------------------------------------------------------------------------
(* Record Joiner (Invoice page) *)

\* df[col] = series: adds or replaces one column
WithColumn(df, col, series) ==
    Table(df.columns \cup {col},
          [i \in 1..Len(df.rows) |->
              [c \in df.columns \cup {col} |->
                  IF c = col THEN series[i] ELSE df.rows[i][c]]])

\* invoice_df.get("Sale order No.", pd.Series(dtype=object)).apply(normalize_order_number);
\* an absent column gives the empty default, which assigns NaN to every row.
invoice_key_series(df) ==
    [i \in 1..Len(df.rows) |->
        IF "Sale order No." \in df.columns
        THEN StrV(normalize_order_number(df.rows[i]["Sale order No."]))
        ELSE Null]

\* project_df["Order number"].apply(normalize_order_number)
project_key_series(df) ==
    [i \in 1..Len(df.rows) |-> StrV(normalize_order_number(df.rows[i]["Order number"]))]

project_lookup_cols ==
    {"Order number", "Project", "Customer", "Project Value", "Balance",
     "Project Engineer", "Status", "Progress"}

\* df[[c for c in cols if c in df.columns]]
SelectColumns(df, cols) ==
    Table(df.columns \cap cols,
          [i \in 1..Len(df.rows) |-> [c \in df.columns \cap cols |-> df.rows[i][c]]])

\* The rows at the positions in keep, in order
RowsAt(rows, keep) ==
    LET RECURSIVE From(_)
        From(i) ==
            IF i > Len(rows) THEN <<>>
            ELSE (IF i \in keep THEN <<rows[i]>> ELSE <<>>) \o From(i + 1)
    IN  From(1)

\* keep="last" instead of the default keep="first"
drop_duplicates_last(df, subset) ==
    Table(df.columns,
          RowsAt(df.rows, {i \in 1..Len(df.rows) :
                              \A j \in (i + 1)..Len(df.rows) :
                                  df.rows[j][subset] # df.rows[i][subset]}))

\* No de-duplication at all.
drop_duplicates_none(df, subset) == df

\* df.drop_duplicates(subset=subset): the first row of every key is kept
drop_duplicates(df, subset) ==
    Table(df.columns,
          RowsAt(df.rows, {i \in 1..Len(df.rows) :
                              \A j \in 1..(i - 1) :
                                  df.rows[j][subset] # df.rows[i][subset]}))

\* The label a column of the right table gets in the merged table, with
\* suffixes=("", "_project"): only a label the left table has too is suffixed.
MergedLabel(left, c) == IF c \in left.columns THEN c \o "_project" ELSE c

\* One merged row: the left row, and the right row's columns (NaN without one).
MergedRow(left, right, on, l, r, matched) ==
    LET labels == {MergedLabel(left, c) : c \in right.columns \ {on}}
    IN  [oc \in left.columns \cup labels |->
            IF oc \in left.columns THEN l[oc]
            ELSE IF matched
                 THEN r[CHOOSE c \in right.columns \ {on} : MergedLabel(left, c) = oc]
                 ELSE Null]

RECURSIVE MergeRows(_, _, _, _)
MergeRows(left, right, on, i) ==
    IF i > Len(left.rows) THEN <<>>
    ELSE LET l == left.rows[i]
             hits == SelectSeq(right.rows, LAMBDA r : r[on] = l[on])
             out == IF hits = <<>> THEN <<MergedRow(left, right, on, l, l, FALSE)>>
                    ELSE [j \in 1..Len(hits) |-> MergedRow(left, right, on, l, hits[j], TRUE)]
         IN  out \o MergeRows(left, right, on, i + 1)

\* how="inner": a left row without a match is dropped
merge_inner(left, right, on) ==
    Table(left.columns \cup {MergedLabel(left, c) : c \in right.columns \ {on}},
          SelectSeq(MergeRows(left, right, on, 1),
                    LAMBDA m : \E j \in 1..Len(right.rows) : right.rows[j][on] = m[on]))

\* left.merge(right, on=on, how="left", suffixes=("", "_project"))
merge_left(left, right, on) ==
    Table(left.columns \cup {MergedLabel(left, c) : c \in right.columns \ {on}},
          MergeRows(left, right, on, 1))

\* Series.combine_first, cell by cell
combine_first(a, b) == IF pd_isna(a) THEN b ELSE a

\* The secondary column wins whenever it has a value.
combine_columns_reversed(df, primary, secondary) ==
    [i \in 1..Len(df.rows) |->
        combine_first(IF secondary \in df.columns THEN df.rows[i][secondary] ELSE Null,
                      IF primary \in df.columns THEN df.rows[i][primary] ELSE Null)]

\* combine_columns(df, primary, secondary)
combine_columns(df, primary, secondary) ==
    [i \in 1..Len(df.rows) |->
        combine_first(IF primary \in df.columns THEN df.rows[i][primary] ELSE Null,
                      IF secondary \in df.columns THEN df.rows[i][secondary] ELSE Null)]

----------------------------------------------------------------------------
(* The Invoice page *)

ProjectCols == project_lookup_cols
InvoiceCols == {"Sale order No.", "Customer", "Project Engineer", "Invoice value"}

ProjectRowA(key) ==
    [c \in ProjectCols |->
        CASE c = "Order number" -> key
          [] c = "Project" -> Text2("P", "1")
          [] c = "Customer" -> Text1("X")
          [] c = "Project Value" -> IntV(1000)
          [] c = "Balance" -> IntV(400)
          [] c = "Project Engineer" -> Text2("E", "1")
          [] c = "Status" -> Text4("O", "p", "e", "n")
          [] OTHER -> FloatV(5)]

ProjectRowB(key) ==
    [c \in ProjectCols |->
        CASE c = "Order number" -> key
          [] c = "Project Value" -> Text4("2", "0", "0", "0")
          [] c = "Progress" -> FloatV(15)
          [] OTHER -> Null]

\* Rows the project source may hold.  Their raw order numbers are an integer, a
\* numeric text, an integer-valued float, a non-numeric text and an absent one;
\* the last row is entirely empty.
ProjectRows ==
    { ProjectRowA(IntV(5)), ProjectRowB(Text1("5")), ProjectRowA(FloatV(70)),
      ProjectRowB(Text3("A", "-", "1")), ProjectRowA(Null),
      [c \in ProjectCols |-> Null] }

InvoiceRowA(key) ==
    [c \in InvoiceCols |->
        CASE c = "Sale order No." -> key
          [] c = "Customer" -> Text4("A", "c", "m", "e")
          [] c = "Project Engineer" -> Text2("E", "2")
          [] OTHER -> IntV(400)]

InvoiceRowB(key) ==
    [c \in InvoiceCols |->
        CASE c = "Sale order No." -> key
          [] c = "Invoice value" -> Text2("5", "0")
          [] OTHER -> Null]

\* Rows the invoice source may hold, with the same kinds of raw order number.
InvoiceRows ==
    { InvoiceRowA(IntV(5)), InvoiceRowB(Text1("5")), InvoiceRowB(FloatV(70)),
      InvoiceRowA(Text3("A", "-", "1")), InvoiceRowB(Null),
      [c \in InvoiceCols |-> Null] }

EmptyTable == Table({}, <<>>)

InitJoin ==
    /\ project_raw \in {Table(ProjectCols, rows) : rows \in SeqsUpTo(ProjectRows, MaxProjects)}
    /\ invoice_raw \in {Table(InvoiceCols, rows) : rows \in SeqsUpTo(InvoiceRows, MaxInvoices)}
    /\ project_df = EmptyTable
    /\ invoice_df = EmptyTable
    /\ project_lookup = EmptyTable
    /\ merged = EmptyTable
    /\ page = "idle"

\* One run of the Invoice page's script on the tables the source returns:
\* load_data, the join, then the combined columns.  project_df["Order number"]
\* raises KeyError when the project table has no such column.
RenderInvoicePage ==
    /\ "Order number" \in project_raw.columns
    /\ LET p0 == clean_project(project_raw)
           i0 == clean_invoice(invoice_raw)
           inv == WithColumn(i0, "Order number", invoice_key_series(i0))
           prj == WithColumn(p0, "Order number", project_key_series(p0))
           look == drop_duplicates(SelectColumns(prj, project_lookup_cols), "Order number")
           m0 == merge_left(inv, look, "Order number")
           m1 == WithColumn(m0, "Project Engineer Combined",
                            combine_columns(m0, "Project Engineer", "Project Engineer_project"))
           m2 == WithColumn(m1, "Customer Combined",
                            combine_columns(m1, "Customer", "Customer_project"))
           m3 == WithColumn(m2, "Project Combined",
                            combine_columns(m2, "Project", "Project_project"))
       IN  /\ invoice_df' = inv
           /\ project_df' = prj
           /\ project_lookup' = look
           /\ merged' = m3
    /\ page' = "rendered"
    /\ UNCHANGED <<project_raw, invoice_raw, normVars, rankVars, corpusVars, cleanVars, handlerVars>>

IdleNorm == n_in = Null /\ n_out = <<>>

IdleJoin ==
    /\ project_raw = EmptyTable
    /\ invoice_raw = EmptyTable
    /\ project_df = EmptyTable
    /\ invoice_df = EmptyTable
    /\ project_lookup = EmptyTable
    /\ merged = EmptyTable
    /\ page = "idle"

NotRanked == [called |-> FALSE, docs |-> <<>>, scores |-> <<>>]

IdleRank == r_query = <<>> /\ r_docs = <<>> /\ r_top_k = 0 /\ r_result = NotRanked

NotBuilt == [called |-> FALSE, docs |-> <<>>]

IdleCorpus ==
    /\ c_project = <<>>
    /\ c_invoice = <<>>
    /\ c_domain = "both"
    /\ c_include_pmbok = FALSE
    /\ c_chunks = <<>>
    /\ c_include_workflow = FALSE
    /\ c_limit = 0
    /\ c_corpus = NotBuilt

Pages == {"Invoice", "project", "AI Integration"}

NotLoaded == [loaded |-> FALSE, project |-> <<>>, invoice |-> <<>>]

IdleClean ==
    /\ k_project_raw = EmptyTable
    /\ k_invoice_raw = EmptyTable
    /\ k_cleaned = [p \in Pages |-> NotLoaded]

\* The areas no specification of the joins, the normalizer or the ranker uses
IdleStream ==
    /\ g_client = FALSE
    /\ g_model = ""
    /\ g_upstream = <<>>
    /\ g_taken = 0
    /\ g_yielded = <<>>
    /\ g_state = "idle"
    /\ g_asked = 0
    /\ g_calls = <<>>
    /\ g_errors = 0

ChartKeys ==
    {"ai_order_summary", "ai_progress_gauge", "ai_engineer_pie", "ai_customer_pie",
     "ai_manu_qty", "ai_phrase_counts"}

NoRun == [page |-> "none", forms |-> 0, styles |-> 0, clicked |-> "none",
          outcome |-> "none", content |-> Null]

IdleSession ==
    /\ s_ollama = FALSE
    /\ s_style = FALSE
    /\ s_summary = [k \in ChartKeys |-> Null]
    /\ s_run = NoRun

Worksheets == {"Project", "Invoice"}

Sessions == {1, 2}

\* No entry in the cache of conn.read
NoEntry == [hit |-> FALSE, rows |-> <<>>]

NoSubmission ==
    [pc |-> "idle", worksheet |-> "none", row |-> 0, current |-> <<>>, updated |-> <<>>,
     reads |-> 0, writes |-> 0, clears |-> 0, successes |-> 0, errors |-> 0,
     outcome |-> "none", before |-> [w \in Worksheets |-> <<>>]]

IdleSheet ==
    /\ w_sheet = [w \in Worksheets |-> <<>>]
    /\ w_cache = [w \in Worksheets |-> NoEntry]
    /\ w_sub = [s \in Sessions |-> NoSubmission]
    /\ w_count = 0

\* A table that does not exist; read, it gives an empty frame
NoTable == [exists |-> FALSE, writer |-> 0]

NoQueries == [project |-> 0, invoice |-> 0, meta |-> 0]

NoSnapshot == [hit |-> FALSE, project |-> NoTable, invoice |-> NoTable]

NoMeta == [hit |-> FALSE, meta |-> NoTable]

EmptyCaches ==
    [refresh_cache |-> FALSE, load_cached_data |-> NoSnapshot,
     load_project_invoice |-> NoSnapshot, load_cached_meta |-> NoMeta,
     load_column_meta |-> NoMeta, load_snowflake_data |-> NoSnapshot,
     load_data |-> NoSnapshot]

NoPageRun ==
    [n |-> 0, page |-> "none", session |-> 0, source_up |-> FALSE, source_meta |-> "none",
     queries |-> NoQueries, form_errors |-> 0, titles |-> 0, load_errors |-> 0,
     stopped |-> FALSE, loaded |-> FALSE, project |-> NoTable, invoice |-> NoTable,
     derived |-> 0, asked |-> FALSE, glossary |-> "unset", corpus |-> 0,
     model_calls |-> 0]

IdlePage ==
    /\ p_source = [up |-> FALSE, meta |-> "none"]
    /\ p_duck = [project |-> NoTable, invoice |-> NoTable, column_meta |-> NoTable]
    /\ p_cached = EmptyCaches
    /\ p_run = NoPageRun

\* The areas of the interactive handlers
IdleHandlers == IdleStream /\ IdleSession /\ IdleSheet /\ IdlePage

IdleReading == IdleCorpus /\ IdleClean /\ IdleHandlers

Init == InitJoin /\ IdleNorm /\ IdleRank /\ IdleReading

Next == RenderInvoicePage

Spec == Init /\ [][Next]_vars

InitN == InitNorm /\ IdleJoin /\ IdleRank /\ IdleReading

NextN == Normalize

SpecNorm == InitN /\ [][NextN]_vars

----------------------------------------------------------------------------
(* Relevance Ranker (AI page) *)

\* str.lower(), character by character
LowerChar(ch) ==
    CASE ch = "A" -> "a"
      [] ch = "B" -> "b"
      [] ch = "C" -> "c"
      [] ch = "Z" -> "z"
      [] OTHER -> ch

Lower(t) == [i \in 1..Len(t) |-> LowerChar(t[i])]

\* set(t.split()): the maximal runs of non-blank characters
SplitSet(t) ==
    {SubSeq(t, i, j) : <<i, j>> \in
        {p \in (1..Len(t)) \X (1..Len(t)) :
            /\ p[1] <= p[2]
            /\ \A x \in p[1]..p[2] : t[x] \notin Whitespace
            /\ p[1] = 1 \/ t[p[1] - 1] \in Whitespace
            /\ p[2] = Len(t) \/ t[p[2] + 1] \in Whitespace}}

\* Tokens without case folding.
TokensCaseSensitive(t) == SplitSet(t)

\* set(text.lower().split())
Tokens(t) == SplitSet(Lower(t))

\* seq[:k] of a Python list
PySlice(seq, k) ==
    IF k >= 0 THEN SubSeq(seq, 1, Min(k, Len(seq)))
    ELSE SubSeq(seq, 1, Max(Len(seq) + k, 0))

\* Places x in front of the entries of equal score.
RECURSIVE InsertDescUnstable(_, _)
InsertDescUnstable(sorted, x) ==
    IF sorted = <<>> THEN <<x>>
    ELSE IF Head(sorted).score > x.score
         THEN <<Head(sorted)>> \o InsertDescUnstable(Tail(sorted), x)
    ELSE <<x>> \o sorted

\* Places x behind every entry whose score is not smaller: the order list.sort
\* gives with reverse=True, which keeps entries of equal score in their order.
RECURSIVE InsertDesc(_, _)
InsertDesc(sorted, x) ==
    IF sorted = <<>> THEN <<x>>
    ELSE IF Head(sorted).score >= x.score THEN <<Head(sorted)>> \o InsertDesc(Tail(sorted), x)
    ELSE <<x>> \o sorted

RECURSIVE SortDesc(_)
SortDesc(seq) ==
    IF seq = <<>> THEN <<>>
    ELSE InsertDesc(SortDesc(SubSeq(seq, 1, Len(seq) - 1)), seq[Len(seq)])

\* (score, doc) for every document; a document is named by its corpus position
Scored(query, docs) ==
    [i \in 1..Len(docs) |->
        [score |-> Cardinality(Tokens(query) \cap Tokens(docs[i].text)), pos |-> i]]

Positions(entries) == [i \in 1..Len(entries) |-> entries[i].pos]

\* A fallback of top_k // 2 documents.
rank_docs_half(query, docs, top_k) ==
    LET scored == SortDesc(Scored(query, docs))
        top == SelectSeq(PySlice(scored, top_k), LAMBDA e : e.score > 0)
    IN  IF top = <<>> THEN Positions(PySlice(scored, Max(1, top_k \div 2)))
        ELSE Positions(top)

\* No fallback: whatever matched is returned, even nothing.
rank_docs_no_fallback(query, docs, top_k) ==
    LET scored == SortDesc(Scored(query, docs))
    IN  Positions(SelectSeq(PySlice(scored, top_k), LAMBDA e : e.score > 0))

\* The matching documents are not cut to the first top_k.
rank_docs_uncut(query, docs, top_k) ==
    LET scored == SortDesc(Scored(query, docs))
        top == SelectSeq(scored, LAMBDA e : e.score > 0)
    IN  IF top = <<>> THEN Positions(PySlice(scored, Max(1, top_k \div 3)))
        ELSE Positions(top)

\* rank_docs(query, docs, top_k)
rank_docs(query, docs, top_k) ==
    LET scored == SortDesc(Scored(query, docs))
        top == SelectSeq(PySlice(scored, top_k), LAMBDA e : e.score > 0)
    IN  IF top = <<>> THEN Positions(PySlice(scored, Max(1, top_k \div 3)))
        ELSE Positions(top)

Doc(src, t) == [source |-> src, text |-> t]

\* Documents a corpus may hold: "a B", "b", "c  a", "" and "A a"
CorpusDocs ==
    { Doc("project", <<"a", " ", "B">>), Doc("project", <<"b">>),
      Doc("invoice", <<"c", " ", " ", "a">>), Doc("pmbok", <<>>),
      Doc("workflow", <<"A", " ", "a">>) }

\* Questions: "A b", "z", "" and "b B"
Queries == { <<"A", " ", "b">>, <<"z">>, <<>>, <<"b", " ", "B">> }

InitRank ==
    /\ r_query \in Queries
    /\ r_docs \in SeqsUpTo(CorpusDocs, MaxDocs)
    /\ r_top_k \in (0 - NegK)..MaxK
    /\ r_result = NotRanked

\* context = rank_docs(question, corpus, top_k)
RankDocs ==
    /\ r_result' = [called |-> TRUE,
                     docs |-> rank_docs(r_query, r_docs, r_top_k),
                     scores |-> [i \in 1..Len(r_docs) |-> Scored(r_query, r_docs)[i].score]]
    /\ UNCHANGED <<r_query, r_docs, r_top_k, normVars, joinVars, corpusVars, cleanVars, handlerVars>>

InitR == InitRank /\ IdleNorm /\ IdleJoin /\ IdleReading

NextR == RankDocs

SpecRank == InitR /\ [][NextR]_vars

----------------------------------------------------------------------------
(* Properties of the Invoice page's join *)

KeyCol == "Order number"
EmptyKey == StrV(<<>>)

Rendered == page = "rendered"

\* The merged table has one row per row of invoice_df.
SameLength == Len(merged.rows) = Len(invoice_df.rows)

HasKey(df, k) == \E i \in 1..Len(df.rows) : df.rows[i][KeyCol] = k

\* Position of the first row of df whose key is k
FirstWithKey(df, k) ==
    CHOOSE i \in 1..Len(df.rows) :
        /\ df.rows[i][KeyCol] = k
        /\ \A j \in 1..(i - 1) : df.rows[j][KeyCol] # k

\* Position, after df.dropna(how="all"), of the raw row i that has some value
CleanPos(rows, i) == Cardinality({j \in 1..i : ~RowAllNull(rows[j])})

ProjectOnlyFields == {"Project Value", "Balance", "Status", "Progress"}

\* Every column the merged table takes from the project side
ProjectSideLabels ==
    ProjectOnlyFields \cup {"Project", "Customer_project", "Project Engineer_project"}

\* C1: after a run of the Invoice page the joined table has exactly one row per
\* row of the cleaned invoice table, in invoice order, each carrying that
\* invoice row's own cells, whatever keys the project table holds.
C1_JoinRowCount ==
    Rendered =>
        /\ SameLength
        /\ \A i \in 1..Len(invoice_df.rows) :
              \A c \in invoice_df.columns : merged.rows[i][c] = invoice_df.rows[i][c]

\* Two invoice rows in a run where the project table holds one key twice and an
\* invoice row has that key.
C1_Witness ==
    /\ Rendered
    /\ Len(merged.rows) = 2
    /\ invoice_df.rows[1] # invoice_df.rows[2]
    /\ \E a, b \in 1..Len(project_df.rows) :
          /\ a # b
          /\ project_df.rows[a][KeyCol] = project_df.rows[b][KeyCol]
          /\ invoice_df.rows[1][KeyCol] = project_df.rows[a][KeyCol]

\* C2: a project row and an invoice row that hold the same raw order number
\* (an integer, an integer-valued float, a numeric text or a non-numeric text)
\* get the same non-empty key, and the invoice row is joined to the project
\* data of that key.
C2_SameKeyBothSides ==
    Rendered =>
        /\ SameLength
        /\ \A i \in 1..Len(project_raw.rows) : \A j \in 1..Len(invoice_raw.rows) :
              LET v == project_raw.rows[i]["Order number"]
                  pi == CleanPos(project_raw.rows, i)
                  ij == CleanPos(invoice_raw.rows, j)
              IN  (~pd_isna(v) /\ invoice_raw.rows[j]["Sale order No."] = v) =>
                      /\ project_df.rows[pi][KeyCol] = invoice_df.rows[ij][KeyCol]
                      /\ invoice_df.rows[ij][KeyCol] # EmptyKey
                      /\ \A f \in ProjectOnlyFields :
                            merged.rows[ij][f] =
                                project_df.rows[FirstWithKey(project_df,
                                    invoice_df.rows[ij][KeyCol])][f]

\* C3: an invoice row with the empty key is joined to no project row: every
\* column it takes from the project side is null.
C3_EmptyKeyNeverMatches ==
    Rendered =>
        /\ SameLength
        /\ \A i \in 1..Len(invoice_df.rows) :
              invoice_df.rows[i][KeyCol] = EmptyKey =>
                  \A f \in ProjectSideLabels \cap merged.columns :
                      pd_isna(merged.rows[i][f])

\* The value the project matched to invoice row i has in column attr (null
\* without a match or without the column)
MatchedProjectValue(i, attr) ==
    LET k == invoice_df.rows[i][KeyCol]
    IN  IF HasKey(project_lookup, k) /\ attr \in project_lookup.columns
        THEN project_lookup.rows[FirstWithKey(project_lookup, k)][attr]
        ELSE Null

InvoiceValue(i, attr) ==
    IF attr \in invoice_df.columns THEN invoice_df.rows[i][attr] ELSE Null

CombinedLabel(attr) == attr \o " Combined"

\* C7: for Customer, Project Engineer and Project, the combined column of every
\* joined row is the invoice's own value when that is not null, and the matched
\* project's value otherwise.
C7_ColumnFallback ==
    Rendered =>
        /\ SameLength
        /\ \A i \in 1..Len(invoice_df.rows) :
              \A attr \in {"Customer", "Project Engineer", "Project"} :
                  merged.rows[i][CombinedLabel(attr)] =
                      IF ~pd_isna(InvoiceValue(i, attr)) THEN InvoiceValue(i, attr)
                      ELSE MatchedProjectValue(i, attr)

\* A joined row whose invoice names a customer while the matched project names
\* another, and a joined row whose invoice names none and takes the project's.
C7_Witness ==
    /\ Rendered
    /\ \E i, j \in 1..Len(merged.rows) :
          /\ merged.rows[i]["Customer"] = Text4("A", "c", "m", "e")
          /\ merged.rows[i]["Customer_project"] = Text1("X")
          /\ merged.rows[i]["Customer Combined"] = Text4("A", "c", "m", "e")
          /\ pd_isna(merged.rows[j]["Customer"])
          /\ merged.rows[j]["Customer Combined"] = Text1("X")

\* C8: an invoice row whose key no project row has appears once with null
\* project-only fields; an invoice row whose non-empty key a project row has
\* carries the project-only fields of the first project row with that key.
C8_UnmatchedNull ==
    Rendered =>
        /\ SameLength
        /\ \A i \in 1..Len(invoice_df.rows) :
              LET k == invoice_df.rows[i][KeyCol]
              IN  /\ ~HasKey(project_df, k) =>
                        \A f \in ProjectOnlyFields : pd_isna(merged.rows[i][f])
                  /\ (k # EmptyKey /\ HasKey(project_df, k)) =>
                        \A f \in ProjectOnlyFields :
                            merged.rows[i][f] = project_df.rows[FirstWithKey(project_df, k)][f]

\* A run with an unmatched invoice row next to a matched one.
C8_Witness ==
    /\ Rendered
    /\ \E i, j \in 1..Len(merged.rows) :
          /\ ~HasKey(project_df, invoice_df.rows[i][KeyCol])
          /\ pd_isna(merged.rows[i]["Project Value"])
          /\ invoice_df.rows[j][KeyCol] # EmptyKey
          /\ HasKey(project_df, invoice_df.rows[j][KeyCol])
          /\ merged.rows[j]["Project Value"] = IntV(2000)

\* C9: the lookup used for the join holds, for every key of the project table,
\* exactly the first project row with that key, and nothing else; so an invoice
\* row matches at most one lookup row.
C9_DedupFirst ==
    Rendered =>
        /\ \A i \in 1..Len(project_df.rows) :
              LET k == project_df.rows[i][KeyCol]
                  hits == {j \in 1..Len(project_lookup.rows) : project_lookup.rows[j][KeyCol] = k}
              IN  /\ Cardinality(hits) = 1
                  /\ \A j \in hits : \A c \in project_lookup.columns :
                        project_lookup.rows[j][c] = project_df.rows[FirstWithKey(project_df, k)][c]
        /\ \A j \in 1..Len(project_lookup.rows) : HasKey(project_df, project_lookup.rows[j][KeyCol])
        /\ \A i \in 1..Len(invoice_df.rows) :
              Cardinality({j \in 1..Len(project_lookup.rows) :
                              project_lookup.rows[j][KeyCol] = invoice_df.rows[i][KeyCol]}) <= 1

\* A project table with two different rows of one key, matched by an invoice row.
C9_Witness ==
    /\ Rendered
    /\ Len(project_lookup.rows) < Len(project_df.rows)
    /\ \E a, b \in 1..Len(project_df.rows) :
          /\ a < b
          /\ project_df.rows[a][KeyCol] = project_df.rows[b][KeyCol]
          /\ project_df.rows[a] # project_df.rows[b]
          /\ HasKey(invoice_df, project_df.rows[a][KeyCol])

----------------------------------------------------------------------------
(* Properties of the Key Normalizer *)

\* d is a decimal numeral in canonical form: an optional minus sign and digits,
\* without a leading zero and without "-0"
IsCanonicalDecimal(d) ==
    LET neg == d # <<>> /\ Head(d) = "-"
        body == IF neg THEN Tail(d) ELSE d
    IN  /\ body # <<>>
        /\ AllDigits(body)
        /\ Len(body) > 1 => body[1] # "0"
        /\ neg => body # <<"0">>

DecimalValue(d) ==
    IF d # <<>> /\ Head(d) = "-" THEN 0 - NatOfDigits(Tail(d)) ELSE NatOfDigits(d)

\* d is the decimal form of the integer i
IsDecimalOf(d, i) == IsCanonicalDecimal(d) /\ DecimalValue(d) = i

\* value is the integer i, the float i.0, or the decimal form of i as text with
\* or without blanks around it
RepresentsInt(value, i) ==
    \/ value = IntV(i)
    \/ value = FloatV(10 * i)
    \/ /\ value.tag = "str"
       /\ \E a, b \in 0..Len(value.s) :
             /\ a + b <= Len(value.s)
             /\ \A x \in 1..a : value.s[x] \in Whitespace
             /\ \A x \in (Len(value.s) - b + 1)..Len(value.s) : value.s[x] \in Whitespace
             /\ IsDecimalOf(SubSeq(value.s, a + 1, Len(value.s) - b), i)

C5_NormalizeCases ==
    Len(n_out) >= 1 =>
        /\ pd_isna(n_in) => n_out[1] = <<>>
        /\ n_in.tag = "int" => IsDecimalOf(n_out[1], n_in.n)
        /\ (n_in.tag = "float" /\ n_in.n % 10 = 0) => IsDecimalOf(n_out[1], n_in.n \div 10)
        /\ (n_in.tag = "float" /\ n_in.n % 10 # 0) => n_out[1] = PyStrFloat(n_in.n)
        /\ n_in.tag = "str" => n_out[1] = Strip(n_in.s)

\* C6: normalising a key that normalize_order_number returned gives the same key.
C6_Idempotent == Len(n_out) = 2 => n_out[2] = n_out[1]

\* A text with blanks around it has been normalised twice.
C6_Witness ==
    /\ n_in = Text4(" ", "1", "2", " ")
    /\ n_out = <<(<<"1", "2">>), (<<"1", "2">>)>>

----------------------------------------------------------------------------
(* Properties of the Relevance Ranker *)

NoSharedToken ==
    \A i \in 1..Len(r_docs) : Tokens(r_query) \cap Tokens(r_docs[i].text) = {}

\* floor(k / 3): the integer q with 3q <= k < 3q + 3
FloorThird(k) == CHOOSE q \in (0 - (NegK + 3))..(MaxK + 3) : 3 * q <= k /\ k < 3 * q + 3

C11_AlwaysSomeDocument == r_result.called => r_result.docs # <<>>

\* C11, amended: for every query, every corpus that holds at least one
\* document and every K, the list rank_docs returns is not empty.
C11_SomeDocumentOfNonEmptyCorpus ==
    (r_result.called /\ r_docs # <<>>) => r_result.docs # <<>>

\* K = 0 and a corpus of two documents that both match: one is returned.
C11_Witness ==
    /\ r_result.called
    /\ r_top_k = 0
    /\ Len(r_docs) = 2
    /\ \A i \in 1..2 : r_result.scores[i] > 0
    /\ Len(r_result.docs) = 1

\* Document i comes before document j in the ranking: a higher score, or the
\* same score and an earlier corpus position
RanksBefore(i, j) ==
    \/ r_result.scores[i] > r_result.scores[j]
    \/ r_result.scores[i] = r_result.scores[j] /\ i < j

\* Place of document i in the corpus sorted by descending score
RankOf(i) == 1 + Cardinality({j \in 1..Len(r_docs) : RanksBefore(j, i)})

SomePositiveScore == \E i \in 1..Len(r_docs) : r_result.scores[i] > 0

\* The result is exactly the documents of positive score among the first K of
\* the ranking, in ranking order
PositiveAmongFirstK ==
    /\ \A a \in 1..Len(r_result.docs) : r_result.docs[a] \in 1..Len(r_docs)
    /\ \A i \in 1..Len(r_docs) :
          (\E a \in 1..Len(r_result.docs) : r_result.docs[a] = i)
              <=> (r_result.scores[i] > 0 /\ RankOf(i) <= r_top_k)
    /\ \A a, b \in 1..Len(r_result.docs) :
          a < b => RanksBefore(r_result.docs[a], r_result.docs[b])

\* C12 as stated: when some document has a positive score, rank_docs returns
\* exactly the documents of positive score among the first K of the corpus
\* sorted by descending score, ties in corpus order, and no document of score 0.
C12_Ordering == (r_result.called /\ SomePositiveScore) => PositiveAmongFirstK

\* C12, amended: the same for K >= 1.
C12_OrderingPositiveK ==
    (r_result.called /\ SomePositiveScore /\ r_top_k >= 1) => PositiveAmongFirstK

\* Three documents, the last with the highest score and the first two tied:
\* the result is the last, then the first two in corpus order.
C12_Witness ==
    /\ r_result.called
    /\ Len(r_docs) = 3
    /\ r_result.scores = <<1, 1, 2>>
    /\ r_top_k >= 3
    /\ r_result.docs = <<3, 1, 2>>

\* At most K documents, each a document of the corpus, none twice
AtMostKOfCorpus ==
    /\ Len(r_result.docs) <= r_top_k
    /\ \A a \in 1..Len(r_result.docs) : r_result.docs[a] \in 1..Len(r_docs)
    /\ \A a, b \in 1..Len(r_result.docs) : a # b => r_result.docs[a] # r_result.docs[b]

\* C13 as stated: for K >= 0 rank_docs returns at most K documents, each of
\* the corpus, no corpus position twice.
C13_SizeBound == (r_result.called /\ r_top_k >= 0) => AtMostKOfCorpus

\* C13, amended: the same for K >= 1.
C13_SizeBoundPositiveK == (r_result.called /\ r_top_k >= 1) => AtMostKOfCorpus

\* Three matching documents and K = 2: two are returned.
C13_Witness ==
    /\ r_result.called
    /\ r_top_k = 2
    /\ Len(r_docs) = 3
    /\ \A i \in 1..3 : r_result.scores[i] > 0
    /\ Len(r_result.docs) = 2

\* The words of a text, read left to right: w is the word being read
RECURSIVE WordsFrom(_, _, _)
WordsFrom(t, i, w) ==
    IF i > Len(t) THEN (IF w = <<>> THEN {} ELSE {w})
    ELSE IF t[i] \in Whitespace
         THEN (IF w = <<>> THEN {} ELSE {w}) \cup WordsFrom(t, i + 1, <<>>)
    ELSE WordsFrom(t, i + 1, Append(w, LowerChar(t[i])))

\* C14: the score of a document is the number of distinct lower-cased words
\* that occur both in the query and in the document's text.
C14_Score ==
    r_result.called =>
        /\ Len(r_result.scores) = Len(r_docs)
        /\ \A i \in 1..Len(r_docs) :
              r_result.scores[i] =
                  Cardinality(WordsFrom(r_query, 1, <<>>)
                                  \cap WordsFrom(r_docs[i].text, 1, <<>>))

\* The query "A b" against the text "c  a" scores 1 and against "a B" scores 2.
C14_Witness ==
    /\ r_result.called
    /\ r_query = <<"A", " ", "b">>
    /\ r_docs = <<Doc("invoice", <<"c", " ", " ", "a">>), Doc("project", <<"a", " ", "B">>)>>
    /\ r_result.scores = <<1, 2>>

-----------------------------------------------------------------------------
(* Corpus Builder (AI page) *)

\* The cap on the knowledge chunks, pmbok_chunks[:50]
PmbokCap == 50

\* build_corpus(..., limit: int = 200)
DefaultLimit == 200

MaxCorpusRows == 2
MaxLimit == 3
ChunkSlack == 1

\* row.get(col, default)
RowGet(row, col, default) == IF col \in DOMAIN row THEN row[col] ELSE default

\* f"{value}": a missing number prints as nan
FormatValue(value) == IF value.tag = "null" THEN <<"n", "a", "n">> ELSE PyStr(value)

\* f"{value:.0%}" of a number: the value times 100 without decimals, then %
FormatPercent(value) ==
    CASE value.tag = "float" ->
             (IF value.n < 0 THEN <<"-">> ELSE <<>>)
                 \o PyStrNat((IF value.n < 0 THEN 0 - value.n ELSE value.n) * 10) \o <<"%">>
      [] value.tag = "int" -> PyStrInt(value.n * 100) \o <<"%">>
      [] OTHER -> <<"i", "n", "f", "%">>

Field(label, column) == [label |-> label, column |-> column]

ProjectFields == <<
    Field(<<"P", "r", "o", "j", "e", "c", "t">>, "Project"),
    Field(<<"C", "u", "s", "t", "o", "m", "e", "r">>, "Customer"),
    Field(<<"E", "n", "g", "i", "n", "e", "e", "r">>, "Project Engineer"),
    Field(<<"O", "r", "d", "e", "r">>, "Order number"),
    Field(<<"S", "t", "a", "t", "u", "s">>, "Status"),
    Field(<<"P", "r", "o", "g", "r", "e", "s", "s">>, "Progress"),
    Field(<<"V", "a", "l", "u", "e">>, "Project Value"),
    Field(<<"B", "a", "l", "a", "n", "c", "e">>, "Balance"),
    Field(<<"P", "h", "r", "a", "s", "e">>, "Project Phrase") >>

InvoiceFields == <<
    Field(<<"C", "u", "s", "t", "o", "m", "e", "r">>, "Customer"),
    Field(<<"E", "n", "g", "i", "n", "e", "e", "r">>, "Project Engineer"),
    Field(<<"O", "r", "d", "e", "r">>, "Sale order No."),
    Field(<<"I", "n", "v", "o", "i", "c", "e", " ", "v", "a", "l", "u", "e">>, "Invoice value"),
    Field(<<"P", "a", "y", "m", "e", "n", "t", " ", "s", "t", "a", "t", "u", "s">>, "Payment Status"),
    Field(<<"P", "l", "a", "n", " ", "d", "a", "t", "e">>, "Invoice plan date"),
    Field(<<"I", "s", "s", "u", "e", "d">>, "Issued Date") >>

FieldsOf(kind) == IF kind = "project" THEN ProjectFields ELSE InvoiceFields

\* One entry of parts: f"Label: {row.get(column, '')}", and for Progress the
\* percentage or n/a
Part(row, kind, field) ==
    IF kind = "project" /\ field.column = "Progress"
    THEN IF ~pd_isna(RowGet(row, "Progress", Null))
         THEN field.label \o <<":", " ">> \o FormatPercent(RowGet(row, "Progress", IntV(0)))
         ELSE field.label \o <<":", " ", "n", "/", "a">>
    ELSE field.label \o <<":", " ">> \o FormatValue(RowGet(row, field.column, StrV(<<>>)))

Separator == <<" ", "|", " ">>

\* sep.join(parts)
RECURSIVE Join(_, _)
Join(parts, sep) ==
    IF parts = <<>> THEN <<>>
    ELSE IF Len(parts) = 1 THEN parts[1]
    ELSE parts[1] \o sep \o Join(Tail(parts), sep)

\* row_to_snippet(row, kind)
row_to_snippet(row, kind) ==
    LET fields == FieldsOf(kind)
        parts == [i \in 1..Len(fields) |-> Part(row, kind, fields[i])]
    IN  Join(SelectSeq(parts, LAMBDA p : p # <<>>), Separator)

\* The text of PROJECT_WORKFLOW, shortened
PROJECT_WORKFLOW == <<"w", "o", "r", "k", "f", "l", "o", "w">>

\* df.head(limit) and list[:limit]
df_head(rows, limit) == PySlice(rows, limit)

\* The knowledge chunks are not capped.
build_corpus_uncapped(project_rows, invoice_rows, domain, include_pmbok, pmbok_chunks, include_workflow, limit) ==
    (IF domain \in {"project", "both"}
     THEN [i \in 1..Len(df_head(project_rows, limit)) |->
              Doc("project", row_to_snippet(project_rows[i], "project"))]
     ELSE <<>>)
    \o (IF domain \in {"invoice", "both"}
        THEN [i \in 1..Len(df_head(invoice_rows, limit)) |->
                 Doc("invoice", row_to_snippet(invoice_rows[i], "invoice"))]
        ELSE <<>>)
    \o (IF include_pmbok /\ pmbok_chunks # <<>>
        THEN [i \in 1..Len(pmbok_chunks) |-> Doc("pmbok", pmbok_chunks[i])]
        ELSE <<>>)
    \o (IF include_workflow THEN <<Doc("workflow", PROJECT_WORKFLOW)>> ELSE <<>>)

\* build_corpus(project_df, invoice_df, domain, include_pmbok, pmbok_chunks,
\*              include_workflow, limit)
build_corpus(project_rows, invoice_rows, domain, include_pmbok, pmbok_chunks, include_workflow, limit) ==
    (IF domain \in {"project", "both"}
     THEN [i \in 1..Len(df_head(project_rows, limit)) |->
              Doc("project", row_to_snippet(df_head(project_rows, limit)[i], "project"))]
     ELSE <<>>)
    \o (IF domain \in {"invoice", "both"}
        THEN [i \in 1..Len(df_head(invoice_rows, limit)) |->
                 Doc("invoice", row_to_snippet(df_head(invoice_rows, limit)[i], "invoice"))]
        ELSE <<>>)
    \o (IF include_pmbok /\ pmbok_chunks # <<>>
        THEN [i \in 1..Len(PySlice(pmbok_chunks, PmbokCap)) |->
                 Doc("pmbok", PySlice(pmbok_chunks, PmbokCap)[i])]
        ELSE <<>>)
    \o (IF include_workflow THEN <<Doc("workflow", PROJECT_WORKFLOW)>> ELSE <<>>)

\* Row i of a cleaned project table: texts that may be empty, numbers that may
\* be missing, Progress within [0, 1]
CorpusProjectRow(i) ==
    [c \in {"Project", "Customer", "Project Engineer", "Order number", "Status",
            "Progress", "Project Value", "Balance", "Project Phrase"} |->
        CASE c = "Project" -> StrV(<<"P">> \o PyStrNat(i))
          [] c = "Customer" -> IF i % 2 = 0 THEN StrV(<<>>) ELSE Text2("A", "c")
          [] c = "Project Engineer" -> IF i % 3 = 0 THEN Null ELSE Text2("E", "v")
          [] c = "Order number" -> FloatV(10 * i)
          [] c = "Status" -> Text2("o", "k")
          [] c = "Progress" -> IF i % 4 = 0 THEN Null ELSE FloatV((4 * i) % 11)
          [] c = "Project Value" -> FloatV(20000)
          [] c = "Balance" -> IF i % 2 = 0 THEN Null ELSE FloatV(5)
          [] OTHER -> Text1("x")]

\* Row i of a cleaned invoice table; it has no "Issued Date" column
CorpusInvoiceRow(i) ==
    [c \in {"Customer", "Project Engineer", "Sale order No.", "Invoice value",
            "Payment Status", "Invoice plan date"} |->
        CASE c = "Customer" -> IF i % 2 = 0 THEN Text2("A", "c") ELSE StrV(<<>>)
          [] c = "Project Engineer" -> Text2("E", "v")
          [] c = "Sale order No." -> IntV(10 * i)
          [] c = "Invoice value" -> FloatV(15)
          [] c = "Payment Status" -> IF i % 3 = 0 THEN Null ELSE Text2("o", "k")
          [] OTHER -> Null]

CorpusProjectTable(n) == [i \in 1..n |-> CorpusProjectRow(i)]
CorpusInvoiceTable(n) == [i \in 1..n |-> CorpusInvoiceRow(i)]

\* n knowledge chunks, each a distinct non-empty text
Chunks(n) == [i \in 1..n |-> <<"c">> \o PyStrNat(i)]

Domains == {"project", "invoice", "both", "none"}

\* Small tables, limits and chunk lists around the cap, or the default limit
\* with tables around it
InitCorpus ==
    /\ c_corpus = NotBuilt
    /\ \/ /\ c_project \in {CorpusProjectTable(n) : n \in 0..MaxCorpusRows}
          /\ c_invoice \in {CorpusInvoiceTable(n) : n \in 0..MaxCorpusRows}
          /\ c_limit \in 0..MaxLimit
          /\ c_domain \in Domains
          /\ c_include_pmbok \in BOOLEAN
          /\ c_include_workflow \in BOOLEAN
          /\ c_chunks \in {Chunks(n) : n \in {0, 1} \cup ((PmbokCap - ChunkSlack)..(PmbokCap + ChunkSlack))}
       \/ /\ c_project \in {CorpusProjectTable(n) : n \in {DefaultLimit - 1, DefaultLimit + 1}}
          /\ c_invoice \in {CorpusInvoiceTable(n) : n \in {DefaultLimit, DefaultLimit + 1}}
          /\ c_limit = DefaultLimit
          /\ c_domain = "both"
          /\ c_include_pmbok = TRUE
          /\ c_include_workflow = TRUE
          /\ c_chunks = Chunks(PmbokCap + 1)

\* corpus = build_corpus(project_df, invoice_df, domain, pmbok_use, pmbok_chunks, ...)
BuildCorpus ==
    /\ c_corpus' = [called |-> TRUE,
                    docs |-> build_corpus(c_project, c_invoice, c_domain, c_include_pmbok,
                                          c_chunks, c_include_workflow, c_limit)]
    /\ UNCHANGED <<c_project, c_invoice, c_domain, c_include_pmbok, c_chunks,
                   c_include_workflow, c_limit, normVars, joinVars, rankVars, cleanVars, handlerVars>>

InitC == InitCorpus /\ IdleNorm /\ IdleJoin /\ IdleRank /\ IdleClean /\ IdleHandlers

NextC == BuildCorpus

SpecCorpus == InitC /\ [][NextC]_vars

-----------------------------------------------------------------------------
(* Properties of the Corpus Builder *)

\* The pieces of a text between the occurrences of a separator: piece is the
\* piece being read
RECURSIVE PiecesFrom(_, _, _, _)
PiecesFrom(t, sep, i, piece) ==
    IF i > Len(t) THEN <<piece>>
    ELSE IF i + Len(sep) - 1 <= Len(t) /\ SubSeq(t, i, i + Len(sep) - 1) = sep
         THEN <<piece>> \o PiecesFrom(t, sep, i + Len(sep), <<>>)
    ELSE PiecesFrom(t, sep, i + 1, Append(piece, t[i]))

Segments(t) == PiecesFrom(t, Separator, 1, <<>>)

HasPrefix(t, prefix) == Len(t) >= Len(prefix) /\ SubSeq(t, 1, Len(prefix)) = prefix

\* The field has nothing to show: no such column, a null, or an empty text
EmptyValue(row, field) ==
    \/ field.column \notin DOMAIN row
    \/ pd_isna(row[field.column])
    \/ row[field.column] = StrV(<<>>)

\* Number of documents build_corpus takes from a table
Taken(rows, kinds) == IF c_domain \in kinds THEN Min(c_limit, Len(rows)) ELSE 0

ProjectsTaken == Taken(c_project, {"project", "both"})
InvoicesTaken == Taken(c_invoice, {"invoice", "both"})
ChunksTaken == IF c_include_pmbok THEN Min(PmbokCap, Len(c_chunks)) ELSE 0
WorkflowTaken == IF c_include_workflow THEN 1 ELSE 0

\* The snippet of a record has no entry for a field with nothing to show
OmitsEmptyFields(text, row, kind) ==
    \A f \in 1..Len(FieldsOf(kind)) :
        EmptyValue(row, FieldsOf(kind)[f]) =>
            \A g \in 1..Len(Segments(text)) :
                ~HasPrefix(Segments(text)[g], FieldsOf(kind)[f].label \o <<":">>)

\* C15: the snippet of every record taken into the corpus has no entry for a
\* field whose value is empty or absent, so no bare "Label: " segment.
C15_SnippetOmitsEmptyFields ==
    (c_corpus.called /\ Len(c_corpus.docs) >= ProjectsTaken + InvoicesTaken) =>
        /\ \A i \in 1..ProjectsTaken :
              OmitsEmptyFields(c_corpus.docs[i].text, c_project[i], "project")
        /\ \A i \in 1..InvoicesTaken :
              OmitsEmptyFields(c_corpus.docs[ProjectsTaken + i].text, c_invoice[i], "invoice")

\* The documents of the corpus from position first on, n of them, are the
\* given ones
Holds(first, n, source, texts) ==
    \A i \in 1..n : c_corpus.docs[first + i] = Doc(source, texts[i])

\* C16: the corpus is the snippets of the first min(limit, #projects) project
\* rows (domain project or both), then of the first min(limit, #invoices)
\* invoice rows (domain invoice or both), then the first min(50, #chunks)
\* knowledge chunks (when included), then the workflow document (when
\* included); with the default limit it has at most 200 + 200 + 50 + 1
\* documents.
C16_CorpusOrderAndCaps ==
    c_corpus.called =>
        /\ Len(c_corpus.docs) = ProjectsTaken + InvoicesTaken + ChunksTaken + WorkflowTaken
        /\ Holds(0, ProjectsTaken, "project",
                 [i \in 1..ProjectsTaken |-> row_to_snippet(c_project[i], "project")])
        /\ Holds(ProjectsTaken, InvoicesTaken, "invoice",
                 [i \in 1..InvoicesTaken |-> row_to_snippet(c_invoice[i], "invoice")])
        /\ Holds(ProjectsTaken + InvoicesTaken, ChunksTaken, "pmbok", c_chunks)
        /\ Holds(ProjectsTaken + InvoicesTaken + ChunksTaken, WorkflowTaken, "workflow",
                 <<PROJECT_WORKFLOW>>)
        /\ c_limit = DefaultLimit =>
              Len(c_corpus.docs) <= DefaultLimit + DefaultLimit + PmbokCap + 1

\* The default limit with 201 invoices and 51 chunks: 199 + 200 + 50 + 1
\* documents.
C16_Witness ==
    /\ c_corpus.called
    /\ c_limit = DefaultLimit
    /\ Len(c_project) = DefaultLimit - 1
    /\ Len(c_invoice) = DefaultLimit + 1
    /\ Len(c_chunks) = PmbokCap + 1
    /\ Len(c_corpus.docs) = (DefaultLimit - 1) + DefaultLimit + PmbokCap + 1


-----------------------------------------------------------------------------
(* Loaders of the three pages: the cleaned tables *)

MaxCleanRows == 2

CleanProjectCols == {"Project", "Progress"}
CleanInvoiceCols == {"Customer", "Invoice value"}

\* Progress as the source may hold it: missing, below, within and above
\* [0, 1], as a float, an integer or a text, or no number at all
ProgressInputs ==
    { Null, FloatV(0 - 2), FloatV(0), FloatV(4), FloatV(10), FloatV(15),
      IntV(0 - 1), IntV(1), IntV(2), InfV,
      Text3("0", ".", "4"), Text3("1", ".", "5"), Text2("-", "3"), Text1("x") }

CleanProjectRows ==
    { [c \in CleanProjectCols |-> IF c = "Progress" THEN v ELSE Text1("P")] :
          v \in ProgressInputs }
    \cup { [c \in CleanProjectCols |-> Null],
           [c \in CleanProjectCols |-> IF c = "Progress" THEN Text1("x") ELSE Null] }

CleanInvoiceRows ==
    { [c \in CleanInvoiceCols |-> IF c = "Invoice value" THEN v ELSE w] :
          v \in {Null, FloatV(15), Text1("x")}, w \in {Null, Text2("A", "c")} }

FixedProjectTable ==
    Table(CleanProjectCols, <<[c \in CleanProjectCols |-> IF c = "Progress" THEN FloatV(15) ELSE Text1("P")]>>)

FixedInvoiceTable ==
    Table(CleanInvoiceCols, <<[c \in CleanInvoiceCols |-> IF c = "Invoice value" THEN FloatV(15) ELSE Text2("A", "c")]>>)

\* One of the two tables varies while the other is a table of one plain row
InitClean ==
    /\ k_cleaned = [p \in Pages |-> NotLoaded]
    /\ \/ /\ k_project_raw \in {Table(CleanProjectCols, rows) :
                                   rows \in SeqsUpTo(CleanProjectRows, MaxCleanRows)}
          /\ k_invoice_raw = FixedInvoiceTable
       \/ /\ k_project_raw = FixedProjectTable
          /\ k_invoice_raw \in {Table(CleanInvoiceCols, rows) :
                                   rows \in SeqsUpTo(CleanInvoiceRows, MaxCleanRows)}

Loaded(project, invoice) ==
    [loaded |-> TRUE, project |-> project.rows, invoice |-> invoice.rows]

\* Invoice page: load_data()
LoadInvoicePage ==
    /\ k_cleaned' = [k_cleaned EXCEPT !["Invoice"] =
                        Loaded(clean_project(k_project_raw), clean_invoice(k_invoice_raw))]
    /\ UNCHANGED <<k_project_raw, k_invoice_raw, normVars, joinVars, rankVars, corpusVars,
                   handlerVars>>

\* Project page: load_snowflake_data()
LoadProjectPage ==
    /\ k_cleaned' = [k_cleaned EXCEPT !["project"] =
                        Loaded(clean_project(k_project_raw),
                               project_page_clean_invoice(k_invoice_raw))]
    /\ UNCHANGED <<k_project_raw, k_invoice_raw, normVars, joinVars, rankVars, corpusVars,
                   handlerVars>>

\* AI page: load_project_invoice()
LoadAIPage ==
    /\ k_cleaned' = [k_cleaned EXCEPT !["AI Integration"] =
                        Loaded(clean_project(k_project_raw), clean_invoice(k_invoice_raw))]
    /\ UNCHANGED <<k_project_raw, k_invoice_raw, normVars, joinVars, rankVars, corpusVars,
                   handlerVars>>

InitK == InitClean /\ IdleNorm /\ IdleJoin /\ IdleRank /\ IdleCorpus /\ IdleHandlers

NextK == LoadInvoicePage \/ LoadProjectPage \/ LoadAIPage

SpecClean == InitK /\ [][NextK]_vars

-----------------------------------------------------------------------------
(* Properties of the cleaners *)

\* The rows of a raw table that are not entirely empty, in input order
RECURSIVE NonEmptyFrom(_, _)
NonEmptyFrom(rows, i) ==
    IF i > Len(rows) THEN <<>>
    ELSE (IF \E c \in DOMAIN rows[i] : ~pd_isna(rows[i][c]) THEN <<rows[i]>> ELSE <<>>)
             \o NonEmptyFrom(rows, i + 1)

NonEmptyRows(df) == NonEmptyFrom(df.rows, 1)

\* A number in tenths: of a float, of an integer
Tenths(value) == IF value.tag = "int" THEN 10 * value.n ELSE value.n

\* What the claim says of one Progress value and its cleaned value
ProgressCleaned(raw, cleaned) ==
    LET number == IF raw.tag = "str" THEN ParseNumber(raw.s) ELSE raw
    IN  /\ ~pd_isna(cleaned) =>
              cleaned.tag \in {"int", "float"} /\ Tenths(cleaned) \in 0..10
        /\ number.tag = "null" => pd_isna(cleaned)
        /\ number.tag = "inf" => ~pd_isna(cleaned) /\ Tenths(cleaned) = 10
        /\ number.tag \in {"int", "float"} =>
              /\ ~pd_isna(cleaned)
              /\ Tenths(number) > 10 => Tenths(cleaned) = 10
              /\ Tenths(number) < 0 => Tenths(cleaned) = 0
              /\ Tenths(number) \in 0..10 => Tenths(cleaned) = Tenths(number)

\* C17: after clean_project, of every page, every non-null Progress lies in
\* [0, 1]: above 1 becomes 1, below 0 becomes 0, within [0, 1] is unchanged,
\* and a value that is no number becomes null.
C17_ProgressClipped ==
    \A p \in Pages :
        k_cleaned[p].loaded =>
            /\ Len(k_cleaned[p].project) = Len(NonEmptyRows(k_project_raw))
            /\ \A i \in 1..Len(k_cleaned[p].project) :
                  ProgressCleaned(NonEmptyRows(k_project_raw)[i]["Progress"],
                                  k_cleaned[p].project[i]["Progress"])

\* Progress -0.2 and the text "1.5", cleaned by the Project page, become 0 and 1.
C17_Witness ==
    /\ k_cleaned["project"].loaded
    /\ Len(k_project_raw.rows) = 2
    /\ k_project_raw.rows[1]["Progress"] = FloatV(0 - 2)
    /\ k_project_raw.rows[2]["Progress"] = Text3("1", ".", "5")
    /\ Len(k_cleaned["project"].project) = 2
    /\ k_cleaned["project"].project[1]["Progress"] = FloatV(0)
    /\ k_cleaned["project"].project[2]["Progress"] = FloatV(10)

\* The cleaned rows are the input rows that are not entirely empty, in input
\* order, and none of them is entirely empty
DropsEmptyRows(raw, cleaned, label) ==
    /\ Len(cleaned) = Len(NonEmptyRows(raw))
    /\ \A i \in 1..Len(cleaned) : ~RowAllNull(cleaned[i])
    /\ \A i \in 1..Len(cleaned) :
          i <= Len(NonEmptyRows(raw)) => cleaned[i][label] = NonEmptyRows(raw)[i][label]

\* C18: clean_project and clean_invoice of every page return no entirely empty
\* row and every other input row, in input order; the invoice cleaners of the
\* three pages return the same rows.
C18_EmptyRowsDropped ==
    /\ \A p \in Pages :
          k_cleaned[p].loaded =>
              /\ DropsEmptyRows(k_project_raw, k_cleaned[p].project, "Project")
              /\ DropsEmptyRows(k_invoice_raw, k_cleaned[p].invoice, "Customer")
    /\ \A p, q \in Pages :
          (k_cleaned[p].loaded /\ k_cleaned[q].loaded) =>
              k_cleaned[p].invoice = k_cleaned[q].invoice

-----------------------------------------------------------------------------
(* Invoice page on tables that may lack the join-key column *)

MaxSchemaRows == 2

\* A row without the given column
WithoutColumn(row, col) == [c \in (DOMAIN row) \ {col} |-> row[c]]

SchemaProjectRows == {ProjectRowA(IntV(5)), ProjectRowB(Text1("5"))}
SchemaInvoiceRows == {InvoiceRowA(IntV(5)), InvoiceRowB(Null)}

\* Each table either has its order-number column or lacks it
InitSchema ==
    /\ \E rows \in SeqsUpTo(SchemaProjectRows, MaxSchemaRows) :
          \/ project_raw = Table(ProjectCols, rows)
          \/ project_raw = Table(ProjectCols \ {"Order number"},
                                 [i \in 1..Len(rows) |-> WithoutColumn(rows[i], "Order number")])
    /\ \E rows \in SeqsUpTo(SchemaInvoiceRows, MaxSchemaRows) :
          \/ invoice_raw = Table(InvoiceCols, rows)
          \/ invoice_raw = Table(InvoiceCols \ {"Sale order No."},
                                 [i \in 1..Len(rows) |-> WithoutColumn(rows[i], "Sale order No.")])
    /\ project_df = EmptyTable
    /\ invoice_df = EmptyTable
    /\ project_lookup = EmptyTable
    /\ merged = EmptyTable
    /\ page = "idle"

\* A run of the Invoice page's script on a project table without "Order number":
\* load_data and the invoice key succeed, then project_df["Order number"]
\* raises KeyError and the run ends there.
RenderInvoicePageKeyError ==
    /\ "Order number" \notin project_raw.columns
    /\ LET i0 == clean_invoice(invoice_raw)
       IN  invoice_df' = WithColumn(i0, "Order number", invoice_key_series(i0))
    /\ project_df' = clean_project(project_raw)
    /\ page' = "error"
    /\ UNCHANGED <<project_raw, invoice_raw, project_lookup, merged,
                   normVars, rankVars, corpusVars, cleanVars, handlerVars>>

InitS == InitSchema /\ IdleNorm /\ IdleRank /\ IdleReading

NextS == RenderInvoicePage \/ RenderInvoicePageKeyError

SpecSchema == InitS /\ [][NextS]_vars

\* C19: when "Sale order No." is absent from the invoice table or "Order
\* number" from the project table, a run of the Invoice page raises no error
\* and its join has one row per invoice, none with a project matched.
C19_MissingKeyColumnNoMatch ==
    (/\ page # "idle"
     /\ \/ "Sale order No." \notin invoice_raw.columns
        \/ "Order number" \notin project_raw.columns) =>
        /\ page = "rendered"
        /\ SameLength
        /\ \A i \in 1..Len(merged.rows) :
              \A f \in ProjectOnlyFields : pd_isna(merged.rows[i][f])

\* C20: when the project table or the invoice table comes back without rows,
\* the run of the Invoice page halts with an error instead of going on to the
\* join.
C20_EmptySourceHalts ==
    (project_raw.rows = <<>> \/ invoice_raw.rows = <<>>) => page # "rendered"

-----------------------------------------------------------------------------
(* Ask AI (AI page): the streamed answer of an OpenRouter model *)

MaxChunks == 3

\* An upstream chunk: whether chunk.choices holds an entry, and
\* choices[0].delta.content
NoChoices == [choices |-> 0, content |-> Null]
Delta(content) == [choices |-> 1, content |-> content]

StreamChunks ==
    {NoChoices, Delta(Null), Delta(StrV(<<>>)), Delta(Text1("a")), Delta(Text2("b", " "))}

\* The models of MODEL_OPTIONS that go through OpenRouter: Grok and one other
OpenRouterModels == {"grok_openrouter", "openai/gpt-oss-20b:free"}

\* delta = chunk.choices[0].delta.content if chunk.choices else None
DeltaOf(chunk) == IF chunk.choices > 0 THEN chunk.content ELSE Null

\* if delta:
Truthy(delta) == delta.tag = "str" /\ delta.s # <<>>

\* The loop yields at each chunk, whatever its delta.
NextYieldAny(upstream, taken) ==
    IF taken >= Len(upstream) THEN Len(upstream) + 1 ELSE taken + 1

\* for chunk in stream: ... if delta: yield delta.  Resumed after `taken`
\* chunks, the loop stops at the first later chunk whose delta is truthy;
\* Len(upstream) + 1 when the stream ends first.
RECURSIVE NextYield(_, _)
NextYield(upstream, taken) ==
    IF taken >= Len(upstream) THEN Len(upstream) + 1
    ELSE IF Truthy(DeltaOf(upstream[taken + 1])) THEN taken + 1
    ELSE NextYield(upstream, taken + 1)

\* The request of chat.completions.create for a model choice
Request(model_choice) ==
    [model |-> IF model_choice = "grok_openrouter" THEN "x-ai/grok-4.1-fast:free"
               ELSE model_choice,
     reasoning |-> model_choice = "grok_openrouter"]

\* The generator starts although there is no client.
ClientMissingIgnored(client) == FALSE

\* if openrouter_client is None: raise RuntimeError(...)
ClientMissing(client) == ~client

InitStream ==
    /\ g_client \in BOOLEAN
    /\ g_model \in OpenRouterModels
    /\ g_upstream \in SeqsUpTo(StreamChunks, MaxChunks)
    /\ g_taken = 0
    /\ g_yielded = <<>>
    /\ g_state = "idle"
    /\ g_asked = 0
    /\ g_calls = <<>>
    /\ g_errors = 0

\* The generator runs on to its next yield or to the end of the stream
RunToYield ==
    LET j == NextYield(g_upstream, g_taken)
    IN  IF j <= Len(g_upstream)
        THEN /\ g_taken' = j
             /\ g_yielded' = Append(g_yielded, DeltaOf(g_upstream[j]).s)
             /\ g_state' = "suspended"
        ELSE /\ g_taken' = Len(g_upstream)
             /\ g_yielded' = g_yielded
             /\ g_state' = "done"

\* The click on "Ask AI": call_model_stream(...) returns a generator whose
\* body has not started
ClickAskAI ==
    /\ g_state = "idle"
    /\ g_state' = "created"
    /\ UNCHANGED <<g_client, g_model, g_upstream, g_taken, g_yielded, g_asked, g_calls,
                   g_errors, dataVars, notStreamVars>>

\* st.write_stream asks for the first fragment and the generator raises because
\* there is no client; the handler's except shows the error
FirstNextRaises ==
    /\ g_state = "created"
    /\ ClientMissing(g_client)
    /\ g_asked' = g_asked + 1
    /\ g_state' = "failed"
    /\ g_errors' = g_errors + 1
    /\ UNCHANGED <<g_client, g_model, g_upstream, g_taken, g_yielded, g_calls, dataVars, notStreamVars>>

\* st.write_stream asks for the first fragment: the request is sent and the
\* generator runs to its first yield
FirstNext ==
    /\ g_state = "created"
    /\ ~ClientMissing(g_client)
    /\ g_asked' = g_asked + 1
    /\ g_calls' = Append(g_calls, Request(g_model))
    /\ RunToYield
    /\ UNCHANGED <<g_client, g_model, g_upstream, g_errors, dataVars, notStreamVars>>

\* st.write_stream asks for a further fragment
LaterNext ==
    /\ g_state = "suspended"
    /\ g_asked' = g_asked + 1
    /\ RunToYield
    /\ UNCHANGED <<g_client, g_model, g_upstream, g_calls, g_errors, dataVars, notStreamVars>>

InitG ==
    InitStream /\ IdleNorm /\ IdleJoin /\ IdleRank /\ IdleCorpus /\ IdleClean /\ IdleSession
    /\ IdleSheet /\ IdlePage

NextG == ClickAskAI \/ FirstNextRaises \/ FirstNext \/ LaterNext

SpecStream == InitG /\ [][NextG]_vars

-----------------------------------------------------------------------------
(* Properties of Ask AI *)

\* C23: with an OpenRouter model chosen and no client configured, an "Ask AI"
\* action yields no answer fragment, shows exactly one error and sends at most
\* one request to the model.
C23_ModelUnavailable ==
    (~g_client /\ g_state \notin {"idle", "created"}) =>
        /\ g_state = "failed"
        /\ g_yielded = <<>>
        /\ g_errors = 1
        /\ Len(g_calls) <= 1

\* The handler ended in the error although the stream had fragments to give.
C23_Witness ==
    /\ ~g_client
    /\ g_state = "failed"
    /\ g_errors = 1
    /\ g_calls = <<>>
    /\ \E i \in 1..Len(g_upstream) : Truthy(DeltaOf(g_upstream[i]))

\* The non-empty text deltas of the first n chunks, in arrival order
RECURSIVE TextDeltas(_, _)
TextDeltas(chunks, n) ==
    IF n = 0 THEN <<>>
    ELSE LET c == chunks[n]
             text == c.choices > 0 /\ c.content.tag = "str" /\ Len(c.content.s) > 0
         IN  TextDeltas(chunks, n - 1) \o (IF text THEN <<c.content.s>> ELSE <<>>)

\* C28: the fragments yielded are exactly the non-empty text deltas of the
\* upstream chunks taken so far, once each and in arrival order; the sequence
\* ends when the upstream stream ends; and a chunk is taken from upstream only
\* to serve a fragment the caller asked for.
C28_StreamOrder ==
    g_client =>
        /\ g_taken \in 0..Len(g_upstream)
        /\ g_yielded = TextDeltas(g_upstream, g_taken)
        /\ g_state \in {"idle", "created"} => g_taken = 0 /\ g_asked = 0
        /\ g_state = "suspended" =>
              /\ g_taken >= 1
              /\ Len(g_yielded) = g_asked
              /\ g_yielded[g_asked] = g_upstream[g_taken].content.s
        /\ g_state = "done" =>
              /\ g_taken = Len(g_upstream)
              /\ g_yielded = TextDeltas(g_upstream, Len(g_upstream))
              /\ g_asked = Len(g_yielded) + 1
        /\ g_state # "failed"

\* The stream "", "a", no choices ended after the one fragment "a".
C28_Witness ==
    /\ g_client
    /\ g_state = "done"
    /\ g_upstream = <<Delta(StrV(<<>>)), Delta(Text1("a")), NoChoices>>
    /\ g_yielded = <<<<"a">>>>
    /\ g_asked = 2

-----------------------------------------------------------------------------
(* One browser session: script runs of the pages, the modal style and the AI
   chart summaries kept in the session state *)

\* What the ollama chat call gives back: it raises, or it returns a content
Raises == [ok |-> FALSE, content |-> Null]
Answers(content) == [ok |-> TRUE, content |-> content]
ChatResponses == {Raises, Answers(Text1("x")), Answers(Text1("y"))}

\* Number of add-record forms a page's script renders
FormsOf(p) == IF p = "AI Integration" THEN 2 ELSE 1

\* inject_add_record_modal_style() called once per form: the number of style
\* blocks emitted, given the flag found in the session state
StylesEmitted(flag, forms) == IF flag \/ forms = 0 THEN 0 ELSE 1

\* A failed click removes the stored summary.
ai_chart_summary_reset(summary, key, available, resp) ==
    IF available /\ resp.ok THEN [summary EXCEPT ![key] = resp.content]
    ELSE [summary EXCEPT ![key] = Null]

\* ai_chart_summary(title, df, hint, key) with its button clicked: the session
\* state it leaves
ai_chart_summary(summary, key, available, resp) ==
    IF available /\ resp.ok THEN [summary EXCEPT ![key] = resp.content] ELSE summary

InitSession ==
    /\ s_ollama \in BOOLEAN
    /\ s_style = FALSE
    /\ s_summary = [k \in ChartKeys |-> Null]
    /\ s_run = NoRun

\* What every script run of a page does with its add-record forms
RendersForms(p) ==
    /\ s_style' = (s_style \/ FormsOf(p) > 0)
    /\ UNCHANGED <<s_ollama, dataVars, notSessionVars>>

RunOf(p, clicked, outcome, content) ==
    [page |-> p, forms |-> FormsOf(p), styles |-> StylesEmitted(s_style, FormsOf(p)),
     clicked |-> clicked, outcome |-> outcome, content |-> content]

\* A script run of the Invoice page or of the AI page
RunOtherPage ==
    \E p \in {"Invoice", "AI Integration"} :
        /\ RendersForms(p)
        /\ s_run' = RunOf(p, "none", "none", Null)
        /\ UNCHANGED s_summary

\* A script run of the Project page with no AI button clicked
RunProjectPage ==
    /\ RendersForms("project")
    /\ s_run' = RunOf("project", "none", "none", Null)
    /\ UNCHANGED s_summary

\* A script run of the Project page with the AI button of one chart clicked,
\* on a host without the ollama client
ClickWithoutClient ==
    \E k \in ChartKeys :
        /\ ~s_ollama
        /\ RendersForms("project")
        /\ s_summary' = ai_chart_summary(s_summary, k, s_ollama, Raises)
        /\ s_run' = RunOf("project", k, "unavailable", Null)

\* ... and with the client, whose call raises or returns a content
ClickWithClient ==
    \E k \in ChartKeys, resp \in ChatResponses :
        /\ s_ollama
        /\ RendersForms("project")
        /\ s_summary' = ai_chart_summary(s_summary, k, s_ollama, resp)
        /\ s_run' = RunOf("project", k, IF resp.ok THEN "answered" ELSE "raised", resp.content)

InitU ==
    InitSession /\ IdleNorm /\ IdleJoin /\ IdleRank /\ IdleCorpus /\ IdleClean /\ IdleStream
    /\ IdleSheet /\ IdlePage

NextU == RunOtherPage \/ RunProjectPage \/ ClickWithoutClient \/ ClickWithClient

SpecSession == InitU /\ [][NextU]_vars

-----------------------------------------------------------------------------
(* Properties of the session state *)

\* C29: the value stored under ai_summary_<key> changes only in a run where
\* the AI button of that key was clicked and the AI call succeeded, and then
\* it becomes the content of that call; failed clicks, clicks without a client
\* and runs without a click leave every stored value as it was.
C29_SummaryOnlyOnSuccess ==
    [][\A k \in ChartKeys :
          s_summary'[k] # s_summary[k] =>
              /\ s_ollama
              /\ s_run'.clicked = k
              /\ s_run'.outcome = "answered"
              /\ s_summary'[k] = s_run'.content]_vars

\* A click whose AI call raised, on a chart that has a stored summary, which
\* is still there.
C29_Witness ==
    /\ s_run.clicked = "ai_order_summary"
    /\ s_run.outcome = "raised"
    /\ s_summary["ai_order_summary"] = Text1("x")
    /\ s_summary["ai_manu_qty"] = Text1("y")

\* C30: in every script run of a page that renders at least one add-record
\* form, the style block is emitted exactly once.
C30_StyleEveryRun == s_run.forms >= 1 => s_run.styles = 1

-----------------------------------------------------------------------------
(* Add record: the form submissions that append a row to a worksheet of the
   Google Sheet.  A row is identified by a number: 0 is a row the worksheet
   held before the application started, and the n-th submission carries the
   row n (every row of a form carries its own "Created at" time stamp).
   conn.update is taken to be all or nothing: it replaces the worksheet and
   returns, or it raises and leaves the worksheet as it was. *)

MaxSubmits == 3

\* The worksheets as they can be found when the application starts
InitialSheets == [Worksheets -> {<<>>, <<0>>}]

RowsOf(rows) == {rows[i] : i \in 1..Len(rows)}

\* st.cache_data.clear() left out
cache_clear_skipped(cache) == cache

\* st.cache_data.clear(): every cached conn.read result is dropped
cache_clear(cache) == [w \in Worksheets |-> NoEntry]

\* load_sheet(conn, worksheet): conn.read(worksheet, ttl="2m") answers from
\* its cached result while there is one, and reads the worksheet otherwise
load_sheet(cache, sheet, w) == IF cache[w].hit THEN cache[w].rows ELSE sheet[w]

\* ... and keeps what it answered
cache_after_read(cache, sheet, w) ==
    [cache EXCEPT ![w] = [hit |-> TRUE, rows |-> load_sheet(cache, sheet, w)]]

\* pd.concat([current, pd.DataFrame([row])], ignore_index=True)
concat(current, row) == Append(current, row)

\* conn.update(worksheet=worksheet, data=updated): the worksheet is replaced
conn_update(sheet, w, updated) == [sheet EXCEPT ![w] = updated]

\* The handler starts: the record of a new submission of session s
Started(w, row, sheet) ==
    [NoSubmission EXCEPT !.pc = "read", !.worksheet = w, !.row = row, !.before = sheet]

\* load_sheet returned inside append_row
AfterRead(sub, current) ==
    [sub EXCEPT !.pc = "update", !.reads = @ + 1, !.current = current,
                !.updated = concat(current, sub.row)]

\* conn.update returned
AfterUpdate(sub) == [sub EXCEPT !.pc = "clear", !.writes = @ + 1]

\* st.cache_data.clear(); st.success(...)
AfterSuccess(sub) ==
    [sub EXCEPT !.pc = "done", !.clears = @ + 1, !.successes = @ + 1, !.outcome = "saved"]

\* The failure is followed by a success message all the same.
on_exception_success(sub, calls, outcome) ==
    [sub EXCEPT !.pc = "done", !.reads = @ + calls.reads, !.writes = @ + calls.writes,
                !.errors = @ + 1, !.successes = @ + 1, !.outcome = outcome]

\* except Exception: st.error(...), after the call that raised
on_exception(sub, calls, outcome) ==
    [sub EXCEPT !.pc = "done", !.reads = @ + calls.reads, !.writes = @ + calls.writes,
                !.errors = @ + 1, !.outcome = outcome]

ReadCall == [reads |-> 1, writes |-> 0]
UpdateCall == [reads |-> 0, writes |-> 1]

InitSheet ==
    /\ w_sheet \in InitialSheets
    /\ w_cache = [w \in Worksheets |-> NoEntry]
    /\ w_sub = [s \in Sessions |-> NoSubmission]
    /\ w_count = 0

SheetFrame == UNCHANGED <<dataVars, notSheetVars>>

\* The two minutes of a cached conn.read result are over
ExpireCache ==
    \E w \in Worksheets :
        /\ w_cache[w].hit
        /\ w_cache' = [w_cache EXCEPT ![w] = NoEntry]
        /\ UNCHANGED <<w_sheet, w_sub, w_count>>
        /\ SheetFrame

CanSubmit(s) == w_sub[s].pc \in {"idle", "done"} /\ w_count < MaxSubmits

(* The steps of one submission, as they interleave with the steps of the
   other session's submission *)

\* "Save to ..." pressed: the handler runs up to the return of load_sheet
SubmitRead(s) ==
    \E w \in Worksheets :
        /\ CanSubmit(s)
        /\ w_count' = w_count + 1
        /\ w_sub' = [w_sub EXCEPT
                        ![s] = AfterRead(Started(w, w_count + 1, w_sheet),
                                         load_sheet(w_cache, w_sheet, w))]
        /\ w_cache' = cache_after_read(w_cache, w_sheet, w)
        /\ UNCHANGED w_sheet
        /\ SheetFrame

\* ... or conn.read has to ask the sheet, and raises
SubmitReadRaises(s) ==
    \E w \in Worksheets :
        /\ CanSubmit(s)
        /\ ~w_cache[w].hit
        /\ w_count' = w_count + 1
        /\ w_sub' = [w_sub EXCEPT
                        ![s] = on_exception(Started(w, w_count + 1, w_sheet), ReadCall,
                                            "read_raised")]
        /\ UNCHANGED <<w_sheet, w_cache>>
        /\ SheetFrame

\* conn.update replaces the worksheet by the rows read plus the new row
SubmitUpdate(s) ==
    /\ w_sub[s].pc = "update"
    /\ w_sheet' = conn_update(w_sheet, w_sub[s].worksheet, w_sub[s].updated)
    /\ w_sub' = [w_sub EXCEPT ![s] = AfterUpdate(@)]
    /\ UNCHANGED <<w_cache, w_count>>
    /\ SheetFrame

\* ... or conn.update raises
SubmitUpdateRaises(s) ==
    /\ w_sub[s].pc = "update"
    /\ w_sub' = [w_sub EXCEPT ![s] = on_exception(@, UpdateCall, "update_raised")]
    /\ UNCHANGED <<w_sheet, w_cache, w_count>>
    /\ SheetFrame

\* st.cache_data.clear() and st.success(...)
SubmitClear(s) ==
    /\ w_sub[s].pc = "clear"
    /\ w_cache' = cache_clear(w_cache)
    /\ w_sub' = [w_sub EXCEPT ![s] = AfterSuccess(@)]
    /\ UNCHANGED <<w_sheet, w_count>>
    /\ SheetFrame

InitW == InitSheet /\ IdleNorm /\ IdleJoin /\ IdleRank /\ IdleCorpus /\ IdleClean
         /\ IdleStream /\ IdleSession /\ IdlePage

NextRace ==
    \/ ExpireCache
    \/ \E s \in Sessions : SubmitRead(s)
    \/ \E s \in Sessions : SubmitReadRaises(s)
    \/ \E s \in Sessions : SubmitUpdate(s)
    \/ \E s \in Sessions : SubmitUpdateRaises(s)
    \/ \E s \in Sessions : SubmitClear(s)

\* Two sessions whose submissions interleave step by step
SpecRace == InitW /\ [][NextRace]_vars

(* One submission at a time: the whole handler of a form, from the press of
   the button to its message *)

\* The submission is saved
SubmitSaved(s) ==
    \E w \in Worksheets :
        LET read == AfterRead(Started(w, w_count + 1, w_sheet),
                              load_sheet(w_cache, w_sheet, w))
        IN  /\ CanSubmit(s)
            /\ w_count' = w_count + 1
            /\ w_sheet' = conn_update(w_sheet, w, read.updated)
            /\ w_cache' = cache_clear(cache_after_read(w_cache, w_sheet, w))
            /\ w_sub' = [w_sub EXCEPT ![s] = AfterSuccess(AfterUpdate(read))]
            /\ SheetFrame

\* conn.update raises
SubmitFailed(s) ==
    \E w \in Worksheets :
        LET read == AfterRead(Started(w, w_count + 1, w_sheet),
                              load_sheet(w_cache, w_sheet, w))
        IN  /\ CanSubmit(s)
            /\ w_count' = w_count + 1
            /\ w_cache' = cache_after_read(w_cache, w_sheet, w)
            /\ w_sub' = [w_sub EXCEPT ![s] = on_exception(read, UpdateCall, "update_raised")]
            /\ UNCHANGED w_sheet
            /\ SheetFrame

NextAppend ==
    \/ ExpireCache
    \/ \E s \in Sessions : SubmitSaved(s)
    \/ \E s \in Sessions : SubmitReadRaises(s)
    \/ \E s \in Sessions : SubmitFailed(s)

SpecAppend == InitW /\ [][NextAppend]_vars

-----------------------------------------------------------------------------
(* Properties of the add-record submissions *)

Saved(s) == w_sub[s].pc = "done" /\ w_sub[s].outcome = "saved"

\* C24: when the submissions of the two sessions to the same worksheet have
\* both reported success, the worksheet holds both new rows and every row it
\* held before either of them.
C24_NoLostRow ==
    \A s, t \in Sessions :
        (s # t /\ Saved(s) /\ Saved(t) /\ w_sub[s].worksheet = w_sub[t].worksheet) =>
            LET w == w_sub[s].worksheet
            IN  /\ w_sub[s].row \in RowsOf(w_sheet[w])
                /\ w_sub[t].row \in RowsOf(w_sheet[w])
                /\ RowsOf(w_sub[s].before[w]) \subseteq RowsOf(w_sheet[w])

\* C25: a saved submission, one handler at a time, leaves its worksheet with
\* the rows it had, in their order, followed by the new row, and leaves the
\* other worksheet as it was.
C25_AppendOneRow ==
    [][\A s \in Sessions :
          (w_sub'[s] # w_sub[s] /\ w_sub'[s].outcome = "saved") =>
              /\ w_sheet'[w_sub'[s].worksheet]
                     = Append(w_sheet[w_sub'[s].worksheet], w_sub'[s].row)
              /\ \A o \in Worksheets \ {w_sub'[s].worksheet} :
                     w_sheet'[o] = w_sheet[o]]_vars

\* A second row saved to the Project worksheet after the first one and after
\* the row the worksheet started with, the Invoice worksheet still empty.
C25_Witness ==
    /\ Saved(2)
    /\ w_sub[2].worksheet = "Project"
    /\ w_sheet["Project"] = <<0, 1, 2>>
    /\ w_sheet["Invoice"] = <<>>

\* C26: a submission whose write raised has shown one error and no success
\* message, has called conn.update once and has not cleared the cache; the
\* cache is cleared, once, exactly by the submissions that were saved.
C26_FailureReported ==
    \A s \in Sessions :
        /\ w_sub[s].outcome = "update_raised" =>
              /\ w_sub[s].errors = 1
              /\ w_sub[s].successes = 0
              /\ w_sub[s].clears = 0
              /\ w_sub[s].writes = 1
        /\ w_sub[s].clears = (IF w_sub[s].outcome = "saved" THEN 1 ELSE 0)
        /\ w_sub[s].outcome = "saved" => w_sub[s].errors = 0 /\ w_sub[s].successes = 1

\* The write of session 1 raised while the cache held what it had read.
C26_Witness ==
    /\ w_sub[1].outcome = "update_raised"
    /\ w_sub[1].worksheet = "Invoice"
    /\ w_cache["Invoice"].hit
    /\ w_sheet["Invoice"] = <<0>>

-----------------------------------------------------------------------------
(* The data pages: what a script run of the Project, Invoice and AI page
   loads, through the st.cache_data entries and the DuckDB file that all
   sessions share.  A table of the DuckDB file is known by the session whose
   run wrote it; a frame queried from the warehouse has no writer.  A cached
   function is computed by one run at a time, so a run's load is one step.
   The result cache of the single queries is left out: a query answered from
   it is a query that did not raise. *)

MaxRuns == 2

MetaStates == {"absent", "empty", "filled"}

CacheNames ==
    {"refresh_cache", "load_cached_data", "load_project_invoice", "load_cached_meta",
     "load_column_meta", "load_snowflake_data", "load_data"}

DuckTable(s) == [exists |-> TRUE, writer |-> s]

Queried == [exists |-> TRUE, writer |-> 0]

Snapshot(project, invoice) == [hit |-> TRUE, project |-> project, invoice |-> invoice]

Meta(tbl) == [hit |-> TRUE, meta |-> tbl]

FirstQuery == [project |-> 1, invoice |-> 0, meta |-> 0]
TwoQueries == [project |-> 1, invoice |-> 1, meta |-> 0]
ThreeQueries == [project |-> 1, invoice |-> 1, meta |-> 1]

\* refresh_cache() computed in a run of session s: the three queries, then the
\* tables of the DuckDB file replaced
refresh_cache(source, duck, s) ==
    IF ~source.up THEN [raised |-> TRUE, duck |-> duck, queries |-> FirstQuery]
    ELSE IF source.meta = "absent" THEN [raised |-> TRUE, duck |-> duck, queries |-> ThreeQueries]
    ELSE [raised |-> FALSE,
          duck |-> [project |-> DuckTable(s),
                    invoice |-> DuckTable(s),
                    column_meta |-> IF source.meta = "filled"
                                    THEN DuckTable(s) ELSE duck.column_meta],
          queries |-> ThreeQueries]

\* load_cached_data() computed
load_cached_data(duck) == Snapshot(duck.project, duck.invoice)

\* load_cached_meta() computed
load_cached_meta(duck) == Meta(duck.column_meta)

\* load_project_invoice() called in a run of session s
load_project_invoice(cached, source, duck, s) ==
    LET refreshed == IF cached.refresh_cache
                     THEN [raised |-> FALSE, duck |-> duck, queries |-> NoQueries]
                     ELSE refresh_cache(source, duck, s)
        data == IF cached.load_cached_data.hit THEN cached.load_cached_data
                ELSE load_cached_data(refreshed.duck)
    IN  IF cached.load_project_invoice.hit
        THEN [raised |-> FALSE, cached |-> cached, duck |-> duck,
              value |-> cached.load_project_invoice, queries |-> NoQueries]
        ELSE IF refreshed.raised
        THEN [raised |-> TRUE, cached |-> cached, duck |-> duck,
              value |-> NoSnapshot, queries |-> refreshed.queries]
        ELSE [raised |-> FALSE,
              cached |-> [cached EXCEPT !.refresh_cache = TRUE, !.load_cached_data = data,
                                        !.load_project_invoice = data],
              duck |-> refreshed.duck, value |-> data, queries |-> refreshed.queries]

\* load_column_meta() called
load_column_meta(cached, duck) ==
    LET inner == IF cached.load_cached_meta.hit THEN cached.load_cached_meta
                 ELSE load_cached_meta(duck)
    IN  IF cached.load_column_meta.hit
        THEN [cached |-> cached, value |-> cached.load_column_meta]
        ELSE [cached |-> [cached EXCEPT !.load_cached_meta = inner, !.load_column_meta = inner],
              value |-> inner]

\* meta_text_for_domain(column_meta_df, domain): "" for an empty frame
meta_text_for_domain(meta) == IF meta.meta.exists THEN "glossary" ELSE ""

\* load_snowflake_data() of the Project page and load_data() of the Invoice
\* page, called given the function's cache entry
load_data(entry, source) ==
    IF entry.hit THEN [raised |-> FALSE, entry |-> entry, queries |-> NoQueries]
    ELSE IF ~source.up THEN [raised |-> TRUE, entry |-> entry, queries |-> FirstQuery]
    ELSE [raised |-> FALSE,
          entry |-> Snapshot(Queried, Queried),
          queries |-> TwoQueries]

\* The n-th script run starts; formErrors counts the messages of the add-record
\* forms rendered before the load
StartRun(n, p, s, source, formErrors) ==
    [NoPageRun EXCEPT !.n = n, !.page = p, !.session = s, !.source_up = source.up,
                      !.source_meta = source.meta, !.form_errors = formErrors]

\* The error is shown and the script goes on.
load_failed_no_stop(run, queries, titles) ==
    [run EXCEPT !.queries = queries, !.titles = titles, !.load_errors = @ + 1]

\* except Exception: (st.title,) st.error, st.stop()
load_failed(run, queries, titles) ==
    [run EXCEPT !.queries = queries, !.titles = titles, !.load_errors = @ + 1,
                !.stopped = TRUE]

\* The load returned
load_returned(run, queries, value) ==
    [run EXCEPT !.queries = queries, !.loaded = TRUE, !.project = value.project,
                !.invoice = value.invoice]

\* Messages of n add-record forms, given whether the sheets connection opens
FormErrors(gsheets, n) == IF gsheets THEN 0 ELSE n

\* The rest of the script of the Project and of the Invoice page: title,
\* filters, metrics, charts and tables
Dashboard(run) ==
    IF run.stopped THEN run ELSE [run EXCEPT !.titles = @ + 1, !.derived = 1]

\* The rest of the script of the AI page with "Ask AI" pressed: the corpus,
\* the ranking, the glossary and the model call
AskAI(run, meta) ==
    IF run.stopped THEN run
    ELSE [run EXCEPT !.asked = TRUE, !.corpus = 1, !.glossary = meta_text_for_domain(meta),
                     !.model_calls = 1, !.derived = 1]

Sources == [up : BOOLEAN, meta : MetaStates]

InitPage ==
    /\ p_source \in Sources
    /\ p_duck = [project |-> NoTable, invoice |-> NoTable, column_meta |-> NoTable]
    /\ p_cached = EmptyCaches
    /\ p_run = NoPageRun

PageFrame == UNCHANGED <<dataVars, notPageVars>>

\* The warehouse goes down or comes back, or its COLUMN_META table changes
SourceChanges ==
    \E src \in Sources :
        /\ src # p_source
        /\ p_source' = src
        /\ UNCHANGED <<p_duck, p_cached, p_run>>
        /\ PageFrame

\* The ttl of one cache entry is over
ExpireEntry ==
    \E name \in CacheNames :
        /\ p_cached[name] # EmptyCaches[name]
        /\ p_cached' = [p_cached EXCEPT ![name] = EmptyCaches[name]]
        /\ UNCHANGED <<p_source, p_duck, p_run>>
        /\ PageFrame

\* st.cache_data.clear() after a saved add-record submission
ClearDataCache ==
    /\ p_cached # EmptyCaches
    /\ p_cached' = EmptyCaches
    /\ UNCHANGED <<p_source, p_duck, p_run>>
    /\ PageFrame

\* A script run of the Project page in session s
VisitProject(s) ==
    LET l == load_data(p_cached.load_snowflake_data, p_source)
        run == StartRun(p_run.n + 1, "project", s, p_source, 0)
    IN  /\ p_run.n < MaxRuns
        /\ p_cached' = [p_cached EXCEPT !.load_snowflake_data = l.entry]
        /\ p_run' = Dashboard(IF l.raised THEN load_failed(run, l.queries, 1)
                              ELSE load_returned(run, l.queries, l.entry))
        /\ UNCHANGED <<p_source, p_duck>>
        /\ PageFrame

\* A script run of the Invoice page in session s
VisitInvoice(s) ==
    LET l == load_data(p_cached.load_data, p_source)
        run == StartRun(p_run.n + 1, "Invoice", s, p_source, 0)
    IN  /\ p_run.n < MaxRuns
        /\ p_cached' = [p_cached EXCEPT !.load_data = l.entry]
        /\ p_run' = Dashboard(IF l.raised THEN load_failed(run, l.queries, 1)
                              ELSE load_returned(run, l.queries, l.entry))
        /\ UNCHANGED <<p_source, p_duck>>
        /\ PageFrame

\* A script run of the AI page in session s, with or without "Ask AI" pressed
VisitAI(s) ==
    \E gsheets, ask \in BOOLEAN :
        LET l == load_project_invoice(p_cached, p_source, p_duck, s)
            m == load_column_meta(l.cached, l.duck)
            run == StartRun(p_run.n + 1, "AI Integration", s, p_source, FormErrors(gsheets, 2))
        IN  /\ p_run.n < MaxRuns
            /\ p_duck' = l.duck
            /\ p_cached' = IF l.raised THEN l.cached ELSE m.cached
            /\ p_run' = IF l.raised THEN load_failed(run, l.queries, 0)
                        ELSE IF ask THEN AskAI(load_returned(run, l.queries, l.value), m.value)
                        ELSE load_returned(run, l.queries, l.value)
            /\ UNCHANGED p_source
            /\ PageFrame

InitP == InitPage /\ IdleNorm /\ IdleJoin /\ IdleRank /\ IdleCorpus /\ IdleClean
         /\ IdleStream /\ IdleSession /\ IdleSheet

NextP ==
    \/ SourceChanges
    \/ ExpireEntry
    \/ ClearDataCache
    \/ \E s \in Sessions : VisitProject(s)
    \/ \E s \in Sessions : VisitInvoice(s)
    \/ \E s \in Sessions : VisitAI(s)

SpecPage == InitP /\ [][NextP]_vars

-----------------------------------------------------------------------------
(* Properties of the data pages *)

LoadRaised == p_run.page # "none" /\ ~p_run.loaded

C22_MissingMetaGraceful ==
    (p_run.page = "AI Integration" /\ p_run.source_up
        /\ p_run.source_meta \in {"absent", "empty"}) =>
            /\ p_run.load_errors = 0
            /\ ~p_run.stopped
            /\ p_run.loaded
            /\ p_run.asked => p_run.glossary = ""

\* C27: the project and invoice tables a run of the AI page renders were
\* written by that run's own session.
C27_NoSharedData ==
    (p_run.page = "AI Integration" /\ p_run.loaded) =>
        /\ p_run.project.writer = p_run.session
        /\ p_run.invoice.writer = p_run.session

====
